---- MODULE Spec2Model ----
(***************************************************************************)
(* Model of package buffer of easyjson: the chunk reuse pool, the growable *)
(* Buffer, and the reference-counted recyclable reader.                    *)
(*                                                                         *)
(* Memory is modelled as a heap of backing arrays (mem); a Go slice is a   *)
(* record [arr, len, cap] over one array, so that two slices over the same *)
(* array alias each other as they do in the program.  sync.Pool is a bag:  *)
(* Get returns any pooled item or nothing.                                 *)
(***************************************************************************)
EXTENDS Integers, Sequences, FiniteSets, Bags, TLC

VARIABLES
    config,          \* PoolConfig: StartSize, PooledSize, MaxSize
    buffers,         \* reuse pool: chunk size -> bag of pooled backing arrays
    mem,             \* heap: backing array id -> its bytes (length = capacity),
                     \* for the arrays something still refers to
    buf,             \* the Buffer under test: Buf, toPool, bufs
    rc,              \* the readCloser made from buf: offset, bufs
    recyclables,     \* heap: the recyclable objects (data, isRecycle)
    recyclablePool,  \* recyclablePool: bag of pooled recyclable objects
    readers,         \* heap: the recyclableReadCloser objects
    readerPool,      \* recyclableReadCloserPool: bag of pooled reader objects
    threads,         \* the threads that work on clones: where each is in its call
    appended,        \* history: the bytes appended to buf since it was last empty
    everRecycled,    \* history: the readers Recycle has been called on
    last             \* history: the last operation on buf, or the Reset of a
                     \* reader at its end when no operation followed it

vars == <<config, buffers, mem, buf, rc, recyclables, recyclablePool, readers,
          readerPool, threads, appended, everRecycled, last>>

----------------------------------------------------------------------------
(* Bounds of the model. *)

\* Largest number of backing arrays alive at once.
MaxChunks == 3
\* Largest length of one appended datum.
MaxData == 3
\* Largest number of bytes appended to a buffer between two finalizations.
MaxTotal == 5
\* Number of distinct non-zero byte values.
NBytes == 2

Byte == 1..NBytes

\* The pool configurations (set with Init(cfg)) buffers are run under.
Configs ==
    { [StartSize |-> 1, PooledSize |-> 2, MaxSize |-> 4],
      [StartSize |-> 2, PooledSize |-> 2, MaxSize |-> 2] }

\* The pool configuration recyclable readers are run under.
ReaderConfig == [StartSize |-> 1, PooledSize |-> 2, MaxSize |-> 4]

\* Every sequence over S of length at most n.
SeqsUpTo(S, n) == UNION { [1..k -> S] : k \in 0..n }

----------------------------------------------------------------------------
(* Go slices over the heap. *)

\* The nil slice.
Nil == [arr |-> 0, len |-> 0, cap |-> 0]

\* The bytes a slice holds.
SliceBytes(m, s) == IF s.len = 0 THEN <<>> ELSE SubSeq(m[s.arr], 1, s.len)

\* append(s, data...) when data fits the capacity of s: written in place.
AppendInPlace(m, s, data) ==
    IF Len(data) = 0
    THEN [mem |-> m, s |-> s]
    ELSE [mem |-> [m EXCEPT ![s.arr] =
                      [i \in 1..s.cap |->
                          IF i > s.len /\ i <= s.len + Len(data)
                          THEN data[i - s.len] ELSE @[i]]],
          s   |-> [s EXCEPT !.len = @ + Len(data)]]

\* Concatenation of the bytes of a sequence of slices.
RECURSIVE Concat(_, _)
Concat(m, ss) ==
    IF Len(ss) = 0 THEN <<>> ELSE SliceBytes(m, Head(ss)) \o Concat(m, Tail(ss))

\* Sum of the lengths of a sequence of slices.
RECURSIVE SumLen(_)
SumLen(ss) == IF Len(ss) = 0 THEN 0 ELSE Head(ss).len + SumLen(Tail(ss))

\* make([]byte, 0, size): the heap with a new zeroed array at address id.
Make(m, id, size) ==
    [a \in DOMAIN m \cup {id} |-> IF a = id THEN [i \in 1..size |-> 0] ELSE m[a]]

\* The address of the next array made: the lowest one not in use.
FreshArray(m) == CHOOSE a \in 1..MaxChunks + 1 :
                    a \notin DOMAIN m /\ \A x \in 1..a - 1 : x \in DOMAIN m

\* The arrays the slices of a sequence are over.
Arrays(ss) == { ss[i].arr : i \in 1..Len(ss) } \ {0}

\* Garbage collection: the heap without the arrays nothing refers to.
Collect(m, live) == [a \in DOMAIN m \cap live |-> m[a]]

----------------------------------------------------------------------------
(* The reuse pool. *)

\* The size classes initBuffers creates: PooledSize * 2^k <= MaxSize.
RECURSIVE Classes(_, _)
Classes(l, max) == IF l > max THEN {} ELSE {l} \cup Classes(l * 2, max)

\* initBuffers: a new empty sync.Pool for every size class of the
\* configuration; the other keys of the map are left as they are.
initBuffers(pool, cfg) ==
    LET cls == Classes(cfg.PooledSize, cfg.MaxSize)
    IN  [k \in DOMAIN pool \cup cls |-> IF k \in cls THEN EmptyBag ELSE pool[k]]

\* putBuf that pools a chunk of any capacity that has a free list.
putBufAll(pool, s) ==
    IF s.cap \in DOMAIN pool
    THEN [pool EXCEPT ![s.cap] = @ (+) SetToBag({s.arr})]
    ELSE pool

\* putBuf that files a chunk under twice its capacity.
putBufDouble(pool, s) ==
    IF s.cap < config.PooledSize THEN pool
    ELSE IF s.cap * 2 \in DOMAIN pool
         THEN [pool EXCEPT ![s.cap * 2] = @ (+) SetToBag({s.arr})]
         ELSE pool

\* putBuf: the pool after putBuf(s).
putBuf(pool, s) ==
    IF s.cap < config.PooledSize THEN pool
    ELSE IF s.cap \in DOMAIN pool
         THEN [pool EXCEPT ![s.cap] = @ (+) SetToBag({s.arr})]
         ELSE pool

\* putBuf on every slice of a sequence, in order.
RECURSIVE putBufs(_, _)
putBufs(pool, ss) ==
    IF Len(ss) = 0 THEN pool ELSE putBufs(putBuf(pool, Head(ss)), Tail(ss))

\* getBuf: every outcome of getBuf(size) as [buf, mem, pool].  sync.Pool.Get
\* returns any pooled item or nothing; with nothing a new array is made.
getBuf(m, pool, size) ==
    LET reuse ==
            IF size >= config.PooledSize /\ size \in DOMAIN pool
            THEN { [buf  |-> [arr |-> id, len |-> 0, cap |-> size],
                    mem  |-> m,
                    pool |-> [pool EXCEPT ![size] = @ (-) SetToBag({id})]]
                   : id \in BagToSet(pool[size]) }
            ELSE {}
        fresh ==
            IF Cardinality(DOMAIN m) < MaxChunks
            THEN { [buf  |-> [arr |-> FreshArray(m), len |-> 0, cap |-> size],
                    mem  |-> Make(m, FreshArray(m), size),
                    pool |-> pool] }
            ELSE {}
    IN  reuse \cup fresh

----------------------------------------------------------------------------
(* Buffer.  A buffer state st is [b, mem, pool] with b = [Buf, toPool,     *)
(* bufs]; an operation yields the set of states it can end in.             *)

EmptyBuffer == [Buf |-> Nil, toPool |-> Nil, bufs |-> <<>>]

\* The capacity ensureSpaceSlow asks of getBuf.
GrowSize(b) ==
    LET l == IF b.Buf.len > 0 THEN b.toPool.cap * 2 ELSE config.StartSize
    IN  IF l > config.MaxSize THEN config.MaxSize ELSE l

\* ensureSpaceSlow that does not keep the chunk it replaces.
ensureSpaceSlowDrop(st, s) ==
    { [b    |-> [Buf |-> g.buf, toPool |-> g.buf, bufs |-> st.b.bufs],
       mem  |-> g.mem,
       pool |-> g.pool] : g \in getBuf(st.mem, st.pool, GrowSize(st.b)) }

\* ensureSpaceSlow that spills the active chunk even when it is empty.
ensureSpaceSlowSpillEmpty(st, s) ==
    LET b     == st.b
        pool1 == IF b.Buf.len > 0 /\ b.toPool.cap # b.Buf.cap
                 THEN putBuf(st.pool, b.toPool) ELSE st.pool
    IN  { [b    |-> [Buf |-> g.buf, toPool |-> g.buf, bufs |-> Append(b.bufs, b.Buf)],
           mem  |-> g.mem,
           pool |-> g.pool] : g \in getBuf(st.mem, pool1, GrowSize(b)) }

ensureSpaceSlow(st, s) ==
    LET b     == st.b
        pool1 == IF b.Buf.len > 0 /\ b.toPool.cap # b.Buf.cap
                 THEN putBuf(st.pool, b.toPool) ELSE st.pool
        bufs1 == IF b.Buf.len > 0 THEN Append(b.bufs, b.Buf) ELSE b.bufs
    IN  { [b    |-> [Buf |-> g.buf, toPool |-> g.buf, bufs |-> bufs1],
           mem  |-> g.mem,
           pool |-> g.pool] : g \in getBuf(st.mem, pool1, GrowSize(b)) }

EnsureSpace(st, s) ==
    IF st.b.Buf.cap - st.b.Buf.len < s THEN ensureSpaceSlow(st, s) ELSE {st}

\* b.Buf = append(b.Buf, data...) for data that fits.
BufAppend(st, data) ==
    LET a == AppendInPlace(st.mem, st.b.Buf, data)
    IN  [st EXCEPT !.mem = a.mem, !.b.Buf = a.s]

\* The number of bytes one iteration of the slow path copies.
SlowCopyLen(b, n) ==
    LET sz == b.Buf.cap - b.Buf.len IN IF sz > n THEN n ELSE sz

\* appendBytesSlow.  An iteration that can copy nothing (a chunk of
\* capacity 0) repeats for ever: no outcome.
RECURSIVE appendBytesSlow(_, _)
appendBytesSlow(st, data) ==
    IF Len(data) = 0 THEN {st}
    ELSE UNION { LET sz == SlowCopyLen(e.b, Len(data))
                 IN  IF sz = 0 THEN {}
                     ELSE appendBytesSlow(BufAppend(e, SubSeq(data, 1, sz)),
                                          SubSeq(data, sz + 1, Len(data)))
                 : e \in EnsureSpace(st, 1) }

AppendBytes(st, data) ==
    IF Len(data) <= st.b.Buf.cap - st.b.Buf.len
    THEN {BufAppend(st, data)}
    ELSE appendBytesSlow(st, data)

RECURSIVE appendStringSlow(_, _)
appendStringSlow(st, data) ==
    IF Len(data) = 0 THEN {st}
    ELSE UNION { LET sz == SlowCopyLen(e.b, Len(data))
                 IN  IF sz = 0 THEN {}
                     ELSE appendStringSlow(BufAppend(e, SubSeq(data, 1, sz)),
                                           SubSeq(data, sz + 1, Len(data)))
                 : e \in EnsureSpace(st, 1) }

AppendString(st, data) ==
    IF Len(data) <= st.b.Buf.cap - st.b.Buf.len
    THEN {BufAppend(st, data)}
    ELSE appendStringSlow(st, data)

\* AppendByte, for a chunk EnsureSpace(1) left with room.
AppendByte(st, data) ==
    { BufAppend(e, <<data>>) : e \in { x \in EnsureSpace(st, 1) :
                                        x.b.Buf.cap - x.b.Buf.len >= 1 } }

\* The working block of ReadFrom: c bytes (4096 in the source).
BlockSize == 2

\* What r.Read(buf[i:c]) returns when the source has rest left to deliver
\* and the block holds i bytes: [got, rest, e].  A source delivers at most k
\* bytes a call, and its error err with the last bytes or in a call of its
\* own.
SourceRead(src, rest, i) ==
    LET room == BlockSize - i
        a    == IF src.k < room THEN src.k ELSE room
        m    == IF a < Len(rest) THEN a ELSE Len(rest)
        left == SubSeq(rest, m + 1, Len(rest))
    IN  [got  |-> SubSeq(rest, 1, m),
         rest |-> left,
         e    |-> IF left = <<>> /\ (src.withData \/ m = 0) THEN src.err ELSE "nil"]

\* The error ReadFrom returns for the source's error e.
ReadFromErr(e) == IF e = "EOF" THEN "nil" ELSE e

\* ReadFromEnd that drops the bytes in the block when the source failed.
ReadFromEndDrop(st, blk, n, app, e) ==
    IF Len(blk) > 0 /\ e = "EOF"
    THEN { [st |-> a, n |-> n + Len(blk), err |-> ReadFromErr(e), app |-> app \o blk]
           : a \in AppendBytes(st, blk) }
    ELSE { [st |-> st, n |-> n, err |-> ReadFromErr(e), app |-> app] }

\* What ReadFrom returns on error e with blk in the block: [st, n, err, app].
ReadFromEnd(st, blk, n, app, e) ==
    IF Len(blk) > 0
    THEN { [st |-> a, n |-> n + Len(blk), err |-> ReadFromErr(e), app |-> app \o blk]
           : a \in AppendBytes(st, blk) }
    ELSE { [st |-> st, n |-> n, err |-> ReadFromErr(e), app |-> app] }

\* The loop of ReadFrom: rest is what the source has yet to deliver, blk
\* the bytes in the block (buf[:i]), n the count so far and app the bytes
\* appended so far.
RECURSIVE ReadFromLoop(_, _, _, _, _, _)
ReadFromLoop(st, src, rest, blk, n, app) ==
    LET rd   == SourceRead(src, rest, Len(blk))
        blk1 == blk \o rd.got
    IN  IF Len(blk1) = BlockSize
        THEN UNION { IF rd.e # "nil"
                     THEN ReadFromEnd(a, <<>>, n + BlockSize, app \o blk1, rd.e)
                     ELSE ReadFromLoop(a, src, rd.rest, <<>>, n + BlockSize, app \o blk1)
                     : a \in AppendBytes(st, blk1) }
        ELSE IF rd.e # "nil"
             THEN ReadFromEnd(st, blk1, n, app, rd.e)
             ELSE ReadFromLoop(st, src, rd.rest, blk1, n, app)

\* b.ReadFrom(r), r the source src: every [st, n, err, app] it can end in.
ReadFrom(st, src) == ReadFromLoop(st, src, src.stream, <<>>, 0, <<>>)

\* Size that leaves out the chunks of b.bufs.
SizeActiveOnly(b) == b.Buf.len

\* Size: the sum of the lengths of every chunk.
Size(b) == b.Buf.len + SumLen(b.bufs)

\* Buffer.Bytes: a copy of the contents, the buffer unchanged.
Bytes(m, b) == Concat(m, b.bufs) \o SliceBytes(m, b.Buf)

\* BuildBytes that takes the reuse slice only when it is larger than needed.
BuildBytesBigger(st, reuseCap) ==
    LET b == st.b IN
    IF Len(b.bufs) = 0
    THEN [ret   |-> SliceBytes(st.mem, b.Buf),
          store |-> "chunk",
          st    |-> [st EXCEPT !.b = EmptyBuffer]]
    ELSE [ret   |-> Concat(st.mem, b.bufs) \o SliceBytes(st.mem, b.Buf),
          store |-> IF reuseCap > Size(b) THEN "reuse" ELSE "new",
          st    |-> [st EXCEPT !.b = EmptyBuffer,
                               !.pool = putBuf(putBufs(st.pool, b.bufs), b.toPool)]]

\* BuildBytes(reuse...): reuseCap is the capacity of the slice passed, or -1
\* when none is passed.  Yields the bytes returned, whether they are stored
\* in the reuse slice or in the buffer's own chunk, and the state after.
BuildBytes(st, reuseCap) ==
    LET b == st.b IN
    IF Len(b.bufs) = 0
    THEN [ret   |-> SliceBytes(st.mem, b.Buf),
          store |-> "chunk",
          st    |-> [st EXCEPT !.b = EmptyBuffer]]
    ELSE [ret   |-> Concat(st.mem, b.bufs) \o SliceBytes(st.mem, b.Buf),
          store |-> IF reuseCap >= Size(b) THEN "reuse" ELSE "new",
          st    |-> [st EXCEPT !.b = EmptyBuffer,
                               !.pool = putBuf(putBufs(st.pool, b.bufs), b.toPool)]]

----------------------------------------------------------------------------
(* sync.Pool of objects: Get returns any pooled object or nothing, and     *)
(* with nothing New makes one.  An outcome is [id, pool, new].             *)

\* Largest number of recyclableReadCloser objects ever allocated.
MaxReaders == 2
\* Largest number of recyclable objects ever allocated.
MaxSets == 2

PoolGet(pool, allocated, max) ==
    { [id |-> x, pool |-> pool (-) SetToBag({x}), new |-> FALSE]
      : x \in BagToSet(pool) }
    \cup (IF allocated < max
          THEN {[id |-> allocated + 1, pool |-> pool, new |-> TRUE]}
          ELSE {})

\* p[id] = v, for an object of the heap p or one just allocated.
Store(p, id, v) == IF id > Len(p) THEN Append(p, v) ELSE [p EXCEPT ![id] = v]

----------------------------------------------------------------------------
(* recyclable: the Shared Chunk Set.  A nil pointer is 0. *)

\* newRecyclable(data): every outcome as [d, recyclables, recyclablePool].
newRecyclable(recs, rpool, data) ==
    { [d              |-> g.id,
       recyclables    |-> Store(recs, g.id, [data |-> data, isRecycle |-> 1]),
       recyclablePool |-> g.pool] : g \in PoolGet(rpool, Len(recs), MaxSets) }

\* LastReference that also takes the last but one reference for the last.
LastReferenceEarly(rec) == rec.isRecycle - 1 <= 1

\* Whether this call of recyclable.Recycle releases the chunks: the value
\* isRecycle.Add(-1) returns is 0.
LastReference(rec) == rec.isRecycle - 1 = 0

\* recyclable.Recycle that releases the chunks at every call.
recyclableRecycleAlways(recs, rpool, pool, r) ==
    IF r = 0
    THEN [recyclables |-> recs, recyclablePool |-> rpool, pool |-> pool]
    ELSE [recyclables    |-> [recs EXCEPT ![r].isRecycle = @ - 1],
          recyclablePool |-> rpool,
          pool           |-> putBufs(pool, recs[r].data)]

\* recyclable.Recycle on r: [recyclables, recyclablePool, pool].
recyclableRecycle(recs, rpool, pool, r) ==
    IF r = 0
    THEN [recyclables |-> recs, recyclablePool |-> rpool, pool |-> pool]
    ELSE IF LastReference(recs[r])
         THEN [recyclables    |-> [recs EXCEPT ![r] = [data |-> <<>>, isRecycle |-> 0]],
               recyclablePool |-> rpool (+) SetToBag({r}),
               pool           |-> putBufs(pool, recs[r].data)]
         ELSE [recyclables    |-> [recs EXCEPT ![r].isRecycle = @ - 1],
               recyclablePool |-> rpool,
               pool           |-> pool]

----------------------------------------------------------------------------
(* recyclableReadCloser: the cursor. *)

\* recyclableReadCloser{bufs: bufs}: every other field zero.
NewCursor(bufs) ==
    [bufs |-> bufs, offset |-> 0, index |-> 0, offsetLen |-> 0, size |-> 0,
     isClose |-> FALSE, isRecycle |-> FALSE]

\* d.bufs = bufs: the other fields of the pooled object left as they were.
OverwriteBufsOnly(old, bufs) == [old EXCEPT !.bufs = bufs]

\* *d = recyclableReadCloser{bufs: bufs}: the object d overwritten whole,
\* whatever it held (old) when it came out of the pool.
Overwrite(old, bufs) == NewCursor(bufs)

\* The object Get returned: a pooled one as it was left, or a new zero one.
Got(rs, g) == IF g.new THEN NewCursor(0) ELSE rs[g.id]

\* Len: [n, c] with c the cursor after the call (size is cached).
ReaderLen(recs, c) ==
    IF c.size > 0 THEN [n |-> c.size, c |-> c]
    ELSE IF c.bufs = 0 THEN [n |-> 0, c |-> c]
    ELSE LET n == SumLen(recs[c.bufs].data)
         IN  [n |-> n, c |-> [c EXCEPT !.size = n]]

\* Clone without isRecycle.Add(1).
CloneCountSame(rec) == rec.isRecycle

\* The reference count Clone leaves in the set of the cursor it clones.
CloneCount(rec) == rec.isRecycle + 1

\* The cursor Close leaves.
Closed(c) == [c EXCEPT !.isClose = TRUE]

\* The loop of Read over the chunks: p has room for plen bytes and acc is
\* what was copied so far.  [c, out, err].
RECURSIVE readLoop(_, _, _, _, _)
readLoop(m, bufs, c, plen, acc) ==
    IF c.index >= Len(bufs) THEN [c |-> c, out |-> acc, err |-> "nil"]
    ELSE IF c.isClose THEN [c |-> c, out |-> acc, err |-> "closed"]
    ELSE LET b    == bufs[c.index + 1]
             have == b.len - c.offset
             room == plen - Len(acc)
             x    == IF room < have THEN room ELSE have
             got  == SubSeq(SliceBytes(m, b), c.offset + 1, c.offset + x)
             c1   == [c EXCEPT !.offset    = IF c.offset + x = b.len THEN 0 ELSE @ + x,
                               !.index     = IF c.offset + x = b.len THEN @ + 1 ELSE @,
                               !.offsetLen = @ + x]
         IN  IF Len(acc) + x = plen
             THEN [c |-> c1, out |-> acc \o got, err |-> "nil"]
             ELSE readLoop(m, bufs, c1, plen, acc \o got)

\* ReadGuard with the closed check first.
ReadGuardClosedFirst(c, n) ==
    IF c.isClose THEN "closed"
    ELSE IF c.offsetLen >= n THEN "EOF"
    ELSE IF c.bufs = 0 THEN "EOF"
    ELSE "go"

\* The checks Read makes before it copies, n being what Len() returned:
\* the error it returns at once, or "go".
ReadGuard(c, n) ==
    IF c.offsetLen >= n THEN "EOF"
    ELSE IF c.isClose THEN "closed"
    ELSE IF c.bufs = 0 THEN "EOF"
    ELSE "go"


\* Read that reports io.EOF only once the position is past the end.
ReaderReadPastEnd(m, recs, c0, plen) ==
    LET l == ReaderLen(recs, c0)
        c == l.c
    IN  IF ReadGuard(c, l.n) # "go"
        THEN [c |-> c, out |-> <<>>, err |-> ReadGuard(c, l.n)]
        ELSE LET r == readLoop(m, recs[c.bufs].data, c, plen, <<>>)
             IN  IF r.c.offsetLen > l.n
                 THEN IF plen = 0
                      THEN [c |-> r.c, out |-> <<>>, err |-> "nil"]
                      ELSE [r EXCEPT !.err = "EOF"]
                 ELSE r

\* Read(p) with len(p) = plen: [c, out, err]; n is Len(out).
ReaderRead(m, recs, c0, plen) ==
    LET l == ReaderLen(recs, c0)
        c == l.c
    IN  IF ReadGuard(c, l.n) # "go"
        THEN [c |-> c, out |-> <<>>, err |-> ReadGuard(c, l.n)]
        ELSE LET r == readLoop(m, recs[c.bufs].data, c, plen, <<>>)
             IN  IF r.c.offsetLen >= l.n
                 THEN IF plen = 0
                      THEN [c |-> r.c, out |-> <<>>, err |-> "nil"]
                      ELSE [r EXCEPT !.err = "EOF"]
                 ELSE r

\* w.Write(p) of a sink that takes quota more bytes and then fails.
SinkWrite(p, quota) ==
    IF Len(p) <= quota THEN [x |-> Len(p), err |-> "nil"]
    ELSE [x |-> quota, err |-> "sink"]

\* The loop of WriteTo over the chunks: acc is what the sink took so far.
RECURSIVE writeLoop(_, _, _, _, _)
writeLoop(m, bufs, c, quota, acc) ==
    IF c.index >= Len(bufs) THEN [c |-> c, out |-> acc, err |-> "nil"]
    ELSE IF c.isClose THEN [c |-> c, out |-> acc, err |-> "closed"]
    ELSE LET b   == bufs[c.index + 1]
             p   == SubSeq(SliceBytes(m, b), c.offset + 1, b.len)
             w   == SinkWrite(p, quota - Len(acc))
             c1  == [c EXCEPT !.offset    = IF c.offset + w.x = b.len THEN 0 ELSE @ + w.x,
                              !.index     = IF c.offset + w.x = b.len THEN @ + 1 ELSE @,
                              !.offsetLen = @ + w.x]
             out == acc \o SubSeq(p, 1, w.x)
         IN  IF w.err # "nil"
             THEN [c |-> c1, out |-> out, err |-> w.err]
             ELSE writeLoop(m, bufs, c1, quota, out)

\* The checks WriteTo makes before it writes, n being what Len() returned:
\* the error it returns at once, or "go".
WriteGuard(c, n) ==
    IF c.offsetLen >= n THEN "nil"
    ELSE IF c.isClose THEN "closed"
    ELSE IF c.bufs = 0 THEN "nil"
    ELSE "go"


\* WriteTo that writes the chunk the cursor is in from its start.
ReaderWriteToWholeChunk(m, recs, c0, quota) ==
    LET l == ReaderLen(recs, c0)
        c == l.c
    IN  IF WriteGuard(c, l.n) # "go"
        THEN [c |-> c, out |-> <<>>, err |-> WriteGuard(c, l.n)]
        ELSE writeLoop(m, recs[c.bufs].data, [c EXCEPT !.offset = 0], quota, <<>>)

\* WriteTo(w): [c, out, err], out the bytes the sink took; n is Len(out).
ReaderWriteTo(m, recs, c0, quota) ==
    LET l == ReaderLen(recs, c0)
        c == l.c
    IN  IF WriteGuard(c, l.n) # "go"
        THEN [c |-> c, out |-> <<>>, err |-> WriteGuard(c, l.n)]
        ELSE writeLoop(m, recs[c.bufs].data, c, quota, <<>>)

\* Bytes that returns what is left from the position of the cursor.
ReaderBytesRemaining(m, recs, c0) ==
    LET l == ReaderLen(recs, c0)
    IN  IF l.n = 0 \/ c0.bufs = 0 THEN [c |-> l.c, out |-> <<>>, err |-> "nil"]
        ELSE [c   |-> l.c,
              out |-> SubSeq(Concat(m, recs[c0.bufs].data), c0.offsetLen + 1, l.n),
              err |-> "nil"]

\* Bytes that leaves the cursor at the end of the data.
ReaderBytesConsuming(m, recs, c0) ==
    LET l == ReaderLen(recs, c0)
    IN  IF l.n = 0 THEN [c |-> l.c, out |-> <<>>, err |-> "nil"]
        ELSE IF c0.bufs = 0 THEN [c |-> l.c, out |-> <<>>, err |-> "panic"]
        ELSE [c   |-> [l.c EXCEPT !.offsetLen = l.n],
              out |-> Concat(m, recs[c0.bufs].data), err |-> "nil"]

\* Bytes(): [c, out, err]; with r.bufs nil and a cached size it dereferences
\* the nil pointer and panics.
ReaderBytes(m, recs, c0) ==
    LET l == ReaderLen(recs, c0)
    IN  IF l.n = 0 THEN [c |-> l.c, out |-> <<>>, err |-> "nil"]
        ELSE IF c0.bufs = 0 THEN [c |-> l.c, out |-> <<>>, err |-> "panic"]
        ELSE [c |-> l.c, out |-> Concat(m, recs[c0.bufs].data), err |-> "nil"]

\* BuildBytes(reuse), reuse the bytes of the slice passed: [c, out, err].
\* With r.bufs nil and a cached size it dereferences the nil pointer and
\* panics, as Bytes() does.
ReaderBuildBytes(m, recs, c0, reuse) ==
    LET l == ReaderLen(recs, c0)
    IN  IF l.n = 0 THEN [c |-> l.c, out |-> <<>>, err |-> "nil"]
        ELSE IF c0.bufs = 0 THEN [c |-> l.c, out |-> <<>>, err |-> "panic"]
        ELSE [c   |-> l.c,
              out |-> reuse \o Concat(m, recs[c0.bufs].data),
              err |-> "nil"]

\* Reset that rewinds the offsets and leaves the chunk index where it is.
ReaderResetKeepIndex(c) == [c EXCEPT !.offset = 0, !.offsetLen = 0]

\* The cursor Reset leaves.
ReaderReset(c) == [c EXCEPT !.offset = 0, !.index = 0, !.offsetLen = 0]

----------------------------------------------------------------------------
(* Flushing a buffer to a sink, and readCloser: the one-shot reader.  A    *)
(* sink takes quota bytes in all and fails the write that exceeds them.    *)

\* append(b.bufs, b.Buf): the chunk list a reader is made over.
BufferChunks(b) == Append(b.bufs, b.Buf)

\* w.Write on each chunk in order up to the first error: the bytes the sink
\* took and the error.
RECURSIVE writeChunks(_, _, _, _)
writeChunks(m, chunks, quota, acc) ==
    IF Len(chunks) = 0 THEN [out |-> acc, err |-> "nil"]
    ELSE LET p   == SliceBytes(m, Head(chunks))
             w   == SinkWrite(p, quota - Len(acc))
             out == acc \o SubSeq(p, 1, w.x)
         IN  IF w.err # "nil" THEN [out |-> out, err |-> w.err]
             ELSE writeChunks(m, Tail(chunks), quota, out)

\* The buffer after a flush released its chunks.
Flushed(st) ==
    [st EXCEPT !.b = EmptyBuffer,
               !.pool = putBuf(putBufs(st.pool, st.b.bufs), st.b.toPool)]

\* DumpTo's chunk list without the active chunk.
DumpChunksSpilled(b) == b.bufs

\* The chunks DumpTo writes: the active chunk only when it holds bytes.
DumpChunks(b) == IF b.Buf.len > 0 THEN Append(b.bufs, b.Buf) ELSE b.bufs

\* DumpTo(w): [n, err, out, st], out the bytes the sink took.
DumpTo(st, quota) ==
    LET w == writeChunks(st.mem, DumpChunks(st.b), quota, <<>>)
    IN  [n |-> Len(w.out), err |-> w.err, out |-> w.out, st |-> Flushed(st)]

\* Buffer.WriteTo(w): [n, err, out, st].  An error on a spilled chunk
\* returns at once, the buffer as it was.
BufferWriteTo(st, quota) ==
    LET w == writeChunks(st.mem, st.b.bufs, quota, <<>>)
    IN  IF w.err # "nil"
        THEN [n |-> Len(w.out), err |-> w.err, out |-> w.out, st |-> st]
        ELSE LET f == writeChunks(st.mem, <<st.b.Buf>>, quota, w.out)
             IN  [n |-> Len(f.out), err |-> f.err, out |-> f.out, st |-> Flushed(st)]

\* A readCloser that holds nothing.
NoReader == [offset |-> 0, bufs |-> <<>>]

\* Buffer.ReadCloser: [rc, st].
ReadCloser(st) ==
    [rc |-> [offset |-> 0, bufs |-> BufferChunks(st.b)],
     st |-> [st EXCEPT !.b = EmptyBuffer]]

\* The loop of readCloser.Read over rest, the chunks still to range over:
\* [r, pool, out].
RECURSIVE rcReadLoop(_, _, _, _, _, _)
rcReadLoop(m, pool, r, rest, plen, acc) ==
    IF Len(rest) = 0 THEN [r |-> r, pool |-> pool, out |-> acc]
    ELSE LET b     == Head(rest)
             have  == b.len - r.offset
             room  == plen - Len(acc)
             x     == IF room < have THEN room ELSE have
             got   == SubSeq(SliceBytes(m, b), r.offset + 1, r.offset + x)
             done  == r.offset + x = b.len
             r1    == IF done THEN [offset |-> 0, bufs |-> Tail(r.bufs)]
                      ELSE [r EXCEPT !.offset = @ + x]
             pool1 == IF done THEN putBuf(pool, b) ELSE pool
         IN  IF Len(acc) + x = plen
             THEN [r |-> r1, pool |-> pool1, out |-> acc \o got]
             ELSE rcReadLoop(m, pool1, r1, Tail(rest), plen, acc \o got)

\* Read that stops at the end of the first chunk.
rcReadOneChunk(m, pool, r, plen) ==
    LET x == rcReadLoop(m, pool, r, SubSeq(r.bufs, 1, 1), plen, <<>>)
    IN  [r |-> x.r, pool |-> x.pool, out |-> x.out,
         err |-> IF Len(x.r.bufs) = 0 THEN "EOF" ELSE "nil"]

\* readCloser.Read(p) with len(p) = plen: [r, pool, out, err].
rcRead(m, pool, r, plen) ==
    LET x == rcReadLoop(m, pool, r, r.bufs, plen, <<>>)
    IN  [r |-> x.r, pool |-> x.pool, out |-> x.out,
         err |-> IF Len(x.r.bufs) = 0 THEN "EOF" ELSE "nil"]

\* Close that releases the chunks and keeps them in the reader.
rcCloseKeep(pool, r) ==
    [r |-> r, pool |-> putBufs(pool, r.bufs)]

\* readCloser.Close: [r, pool].
rcClose(pool, r) ==
    [r |-> [r EXCEPT !.bufs = <<>>], pool |-> putBufs(pool, r.bufs)]

\* s[n:], as putBuf sees it: the same array with n less length and capacity.
SubSlice(s, n) == IF n = 0 THEN s
                  ELSE [arr |-> s.arr, len |-> s.len - n, cap |-> s.cap - n]

\* What net.Buffers.WriteTo leaves in the elements of the chunk list it
\* consumed n bytes of: nil for a chunk written whole, the rest of the
\* chunk it stopped in.
RECURSIVE Consume(_, _)
Consume(chunks, n) ==
    IF Len(chunks) = 0 THEN <<>>
    ELSE LET h == Head(chunks)
         IN  IF h.len > n THEN <<SubSlice(h, n)>> \o Tail(chunks)
             ELSE <<Nil>> \o Consume(Tail(chunks), n - h.len)

\* readCloser.WriteTo(w): [r, pool, n, err, out].  net.Buffers(r.bufs)
\* shares the elements of r.bufs, which putBuf is then called on.
rcWriteTo(m, pool, r, quota) ==
    LET w == writeChunks(m, r.bufs, quota, <<>>)
    IN  [r    |-> [r EXCEPT !.bufs = <<>>],
         pool |-> putBufs(pool, Consume(r.bufs, Len(w.out))),
         n    |-> Len(w.out), err |-> w.err, out |-> w.out]

----------------------------------------------------------------------------
(* Initial state: the package after init() and one call Init(cfg). *)

\* The configuration the package starts with.
DefaultConfig == [StartSize |-> 128, PooledSize |-> 512, MaxSize |-> 32768]

\* The last call: its name, argument, result and error, the bytes appended
\* (or, for a reader, returned) before it, and for a reader the content and
\* the chunks it was made over.
NoOp == [op |-> "none", arg |-> <<>>, out |-> <<>>, pre |-> <<>>,
         err |-> "nil", src |-> <<>>, held |-> <<>>]

InitWith(cfgs) ==
    /\ config \in cfgs
    /\ buffers = initBuffers(initBuffers(<<>>, DefaultConfig), config)
    /\ mem = Collect(<<>>, {})
    /\ buf = EmptyBuffer
    /\ rc = NoReader
    /\ recyclables = <<>>
    /\ recyclablePool = EmptyBag
    /\ readers = <<>>
    /\ readerPool = EmptyBag
    /\ threads = <<>>
    /\ appended = <<>>
    /\ everRecycled = {}
    /\ last = NoOp

Init == InitWith({ReaderConfig})

\* The arrays something refers to: the buffer, the readCloser, a Shared
\* Chunk Set, the pool.
Live(b, rd, recs, pool) ==
    Arrays(<<b.Buf, b.toPool>>) \cup Arrays(b.bufs) \cup Arrays(rd.bufs)
    \cup UNION { Arrays(recs[r].data) : r \in 1..Len(recs) }
    \cup UNION { BagToSet(pool[k]) : k \in DOMAIN pool }

bufVars == <<buf, rc, appended, threads>>
readerVars == <<recyclables, recyclablePool, readers, readerPool, everRecycled, threads>>

----------------------------------------------------------------------------
(* Operations on recyclable readers. *)

\* Largest content of a Shared Chunk Set.
MaxSetLen == 3

\* The contents readers are made over: bytes that differ from one position
\* to the next.
ReaderInputs == { [i \in 1..n |-> ((i - 1) % NBytes) + 1] : n \in 0..MaxSetLen }

\* var b Buffer; b.AppendBytes(data); r := b.RecyclableReader()
\* st is an outcome of AppendBytes, g of recyclableReadCloserPool.Get and n
\* of newRecyclable.
RecyclableReaderStep(st, g, n) ==
    /\ mem' = st.mem
    /\ buffers' = st.pool
    /\ recyclables' = n.recyclables
    /\ recyclablePool' = n.recyclablePool
    /\ readers' = Store(readers, g.id, Overwrite(Got(readers, g), n.d))
    /\ readerPool' = g.pool
    /\ UNCHANGED <<config, bufVars, everRecycled>>
    /\ last' = NoOp

RecyclableReader ==
    \E data \in ReaderInputs :
    \E st \in AppendBytes([b |-> EmptyBuffer, mem |-> mem, pool |-> buffers], data) :
    \E g \in PoolGet(readerPool, Len(readers), MaxReaders) :
    \E n \in newRecyclable(recyclables, recyclablePool, BufferChunks(st.b)) :
        RecyclableReaderStep(st, g, n)

\* o.Clone(), g the outcome of recyclableReadCloserPool.Get.
CloneStep(o, g) ==
    LET bufs == readers[o].bufs IN
    /\ recyclables' = IF bufs # 0
                      THEN [recyclables EXCEPT
                               ![bufs].isRecycle = CloneCount(recyclables[bufs])]
                      ELSE recyclables
    /\ readers' = Store(readers, g.id, Overwrite(Got(readers, g), bufs))
    /\ readerPool' = g.pool
    /\ UNCHANGED <<config, buffers, mem, recyclablePool, bufVars, everRecycled>>
    /\ last' = NoOp

Clone ==
    \E o \in 1..Len(readers) :
    \E g \in PoolGet(readerPool, Len(readers), MaxReaders) : CloneStep(o, g)

\* o.Recycle()
RecycleStep(o) ==
    /\ IF readers[o].isRecycle
       THEN UNCHANGED <<buffers, mem, recyclables, recyclablePool, readers, readerPool>>
       ELSE LET x == recyclableRecycle(recyclables, recyclablePool, buffers,
                                       readers[o].bufs)
            IN  /\ recyclables' = x.recyclables
                /\ recyclablePool' = x.recyclablePool
                /\ buffers' = x.pool
                /\ readers' = [readers EXCEPT ![o].isRecycle = TRUE, ![o].bufs = 0]
                /\ readerPool' = readerPool (+) SetToBag({o})
                /\ mem' = Collect(mem, Live(buf, rc, x.recyclables, x.pool))
    /\ everRecycled' = everRecycled \cup {o}
    /\ UNCHANGED <<config, bufVars>>
    /\ last' = NoOp

Recycle == \E o \in 1..Len(readers) : RecycleStep(o)

\* Close that also gives up the reference of the cursor.
CloseStepReleasing(o) ==
    LET x == recyclableRecycle(recyclables, recyclablePool, buffers, readers[o].bufs)
    IN  /\ readers' = [readers EXCEPT ![o] = Closed(@)]
        /\ recyclables' = x.recyclables
        /\ recyclablePool' = x.recyclablePool
        /\ buffers' = x.pool
        /\ mem' = Collect(mem, Live(buf, rc, x.recyclables, x.pool))
        /\ UNCHANGED <<config, readerPool, bufVars, everRecycled>>
        /\ last' = NoOp

\* Close that marks every cursor over the same set.
CloseStepShared(o) ==
    /\ readers' = [a \in 1..Len(readers) |->
                      IF readers[a].bufs = readers[o].bufs
                      THEN Closed(readers[a]) ELSE readers[a]]
    /\ UNCHANGED <<config, buffers, mem, recyclables, recyclablePool,
                   readerPool, bufVars, everRecycled>>
    /\ last' = NoOp

\* o.Close()
CloseStep(o) ==
    /\ readers' = [readers EXCEPT ![o] = Closed(@)]
    /\ UNCHANGED <<config, buffers, mem, recyclables, recyclablePool,
                   readerPool, bufVars, everRecycled>>
    /\ last' = NoOp

Close == \E o \in 1..Len(readers) : CloseStep(o)

\* o.Read(p) with len(p) = plen
ReadStep(o, plen) ==
    /\ readers' = [readers EXCEPT ![o] = ReaderRead(mem, recyclables, @, plen).c]
    /\ UNCHANGED <<config, buffers, mem, recyclables, recyclablePool,
                   readerPool, bufVars, everRecycled>>
    /\ last' = NoOp

Read == \E o \in 1..Len(readers), plen \in 0..MaxSetLen : ReadStep(o, plen)

\* o.WriteTo(w), w a sink that takes quota bytes
WriteToStep(o, quota) ==
    /\ readers' = [readers EXCEPT ![o] = ReaderWriteTo(mem, recyclables, @, quota).c]
    /\ UNCHANGED <<config, buffers, mem, recyclables, recyclablePool,
                   readerPool, bufVars, everRecycled>>
    /\ last' = NoOp

WriteTo == \E o \in 1..Len(readers), quota \in 0..MaxSetLen : WriteToStep(o, quota)

\* o.Len()
LenStep(o) ==
    /\ readers' = [readers EXCEPT ![o] = ReaderLen(recyclables, @).c]
    /\ UNCHANGED <<config, buffers, mem, recyclables, recyclablePool,
                   readerPool, bufVars, everRecycled>>
    /\ last' = NoOp

ReadLen == \E o \in 1..Len(readers) : LenStep(o)

\* o.Bytes()
BytesStep(o) ==
    /\ readers' = [readers EXCEPT ![o] = ReaderBytes(mem, recyclables, @).c]
    /\ UNCHANGED <<config, buffers, mem, recyclables, recyclablePool,
                   readerPool, bufVars, everRecycled>>
    /\ last' = NoOp

ReadBytes == \E o \in 1..Len(readers) : BytesStep(o)

\* The slices passed to BuildBytes: an empty one and one that holds a byte.
Reuses == SeqsUpTo(Byte, 1)

\* o.BuildBytes(reuse)
BuildBytesStep(o, reuse) ==
    /\ readers' = [readers EXCEPT ![o] = ReaderBuildBytes(mem, recyclables, @, reuse).c]
    /\ UNCHANGED <<config, buffers, mem, recyclables, recyclablePool,
                   readerPool, bufVars, everRecycled>>
    /\ last' = NoOp

ReadBuildBytes == \E o \in 1..Len(readers), reuse \in Reuses : BuildBytesStep(o, reuse)

\* Whether Reset on cursor c is recorded in the history: c is open, over a
\* set, and has read all of it.
Rewinds(c) ==
    /\ c.bufs # 0 /\ ~c.isClose /\ ~c.isRecycle
    /\ c.offsetLen > 0 /\ c.offsetLen = c.size

\* o.Reset()
ResetStep(o) ==
    /\ readers' = [readers EXCEPT ![o] = ReaderReset(@)]
    /\ UNCHANGED <<config, buffers, mem, recyclables, recyclablePool,
                   readerPool, bufVars, everRecycled>>
    /\ last' = IF Rewinds(readers[o])
               THEN [NoOp EXCEPT !.op = "Reset", !.arg = <<o>>] ELSE NoOp

Reset == \E o \in 1..Len(readers) : ResetStep(o)

Next ==
    \/ RecyclableReader
    \/ Clone
    \/ Recycle
    \/ Close
    \/ Read
    \/ WriteTo
    \/ ReadLen
    \/ ReadBytes
    \/ ReadBuildBytes
    \/ Reset

Spec == Init /\ [][Next]_vars

----------------------------------------------------------------------------
(* Operations on the buffer buf. *)

InitBuf == InitWith(Configs)

\* The state of buf, for the operators above.
BufState == [b |-> buf, mem |-> mem, pool |-> buffers]

\* st is the outcome of an append of data by operation op.
AppendStep(op, data, st) ==
    /\ buf' = st.b
    /\ mem' = Collect(st.mem, Live(st.b, rc, recyclables, st.pool))
    /\ buffers' = st.pool
    /\ appended' = appended \o data
    /\ last' = [NoOp EXCEPT !.op = op, !.arg = data, !.pre = appended]
    /\ UNCHANGED <<config, rc, readerVars>>

BufAppendByte ==
    \E data \in Byte :
        /\ Len(appended) + 1 <= MaxTotal
        /\ \E st \in AppendByte(BufState, data) : AppendStep("AppendByte", <<data>>, st)

BufAppendBytes ==
    \E data \in SeqsUpTo(Byte, MaxData) :
        /\ Len(appended) + Len(data) <= MaxTotal
        /\ \E st \in AppendBytes(BufState, data) : AppendStep("AppendBytes", data, st)

BufAppendString ==
    \E data \in SeqsUpTo(Byte, MaxData) :
        /\ Len(appended) + Len(data) <= MaxTotal
        /\ \E st \in AppendString(BufState, data) : AppendStep("AppendString", data, st)

\* buf.BuildBytes(reuse...), reuseCap the capacity of reuse or -1 without one.
BufBuildBytes ==
    \E reuseCap \in -1..MaxTotal :
        LET x == BuildBytes(BufState, reuseCap) IN
        /\ buf' = x.st.b
        /\ mem' = Collect(x.st.mem, Live(x.st.b, rc, recyclables, x.st.pool))
        /\ buffers' = x.st.pool
        /\ appended' = <<>>
        /\ last' = [NoOp EXCEPT !.op = "BuildBytes", !.out = x.ret, !.pre = appended]
        /\ UNCHANGED <<config, rc, readerVars>>

\* Largest n of EnsureSpace(n).
MaxSpace == 2

\* The sinks flushed to: one that fails after 0..MaxSpace bytes, and one that
\* takes every byte.
Quotas == 0..MaxSpace \cup {MaxTotal}

\* x is what a flush of buf returned.
FlushStep(x) ==
    /\ buf' = x.st.b
    /\ buffers' = x.st.pool
    /\ mem' = Collect(x.st.mem, Live(x.st.b, rc, recyclables, x.st.pool))
    /\ appended' = IF x.st.b = EmptyBuffer THEN <<>> ELSE appended
    /\ last' = NoOp
    /\ UNCHANGED <<config, rc, readerVars>>

\* buf.DumpTo(w)
PoolDumpTo ==
    \E quota \in Quotas : FlushStep(DumpTo(BufState, quota))

\* buf.WriteTo(w)
PoolWriteTo ==
    \E quota \in Quotas : FlushStep(BufferWriteTo(BufState, quota))

\* The sources read from: the bytes they deliver, how many a call at
\* most, the error they end with and whether it comes with the last bytes.
Sources ==
    [stream : ReaderInputs, k : 1..BlockSize,
     err : {"EOF", "src"}, withData : BOOLEAN]

\* buf.ReadFrom(r)
BufReadFrom ==
    \E src \in Sources :
        /\ Len(appended) + Len(src.stream) <= MaxTotal
        /\ \E x \in ReadFrom(BufState, src) :
              /\ buf' = x.st.b
              /\ mem' = Collect(x.st.mem, Live(x.st.b, rc, recyclables, x.st.pool))
              /\ buffers' = x.st.pool
              /\ appended' = appended \o x.app
              /\ last' = [NoOp EXCEPT !.op = "ReadFrom", !.arg = src.stream,
                                      !.err = x.err, !.pre = appended]
              /\ UNCHANGED <<config, rc, readerVars>>

NextBuf ==
    \/ BufAppendByte
    \/ BufAppendBytes
    \/ BufAppendString
    \/ BufBuildBytes
    \/ PoolDumpTo
    \/ PoolWriteTo

SpecBuf == InitBuf /\ [][NextBuf]_vars

\* A buffer filled byte by byte and from sources.
NextSrc ==
    \/ BufAppendByte
    \/ BufReadFrom
    \/ BufBuildBytes

SpecSrc == InitBuf /\ [][NextSrc]_vars

----------------------------------------------------------------------------
(* Operations on the pool, on buf and on the readers made from buf. *)

\* The pool configurations Init(cfg) is called with.
PoolConfigs ==
    { [StartSize |-> 1, PooledSize |-> 2, MaxSize |-> 4],
      [StartSize |-> 1, PooledSize |-> 3, MaxSize |-> 4] }

\* Largest number of recyclable readers, and of their sets, allocated beside
\* buf and its readCloser.
MaxPoolReaders == 1

InitPool == InitWith(PoolConfigs)

\* Init(cfg)
Configure ==
    \E cfg \in PoolConfigs :
        LET pool == initBuffers(buffers, cfg) IN
        /\ config' = cfg
        /\ buffers' = pool
        /\ mem' = Collect(mem, Live(buf, rc, recyclables, pool))
        /\ last' = NoOp
        /\ UNCHANGED <<buf, rc, appended, readerVars>>

\* The data appended: only its length matters to the pool.
PoolInputs == { [i \in 1..n |-> 1] : n \in 0..MaxSetLen }

\* buf.AppendBytes(data)
PoolAppendBytes ==
    \E data \in PoolInputs :
        /\ Len(appended) + Len(data) <= MaxSetLen
        /\ \E st \in AppendBytes(BufState, data) : AppendStep("AppendBytes", data, st)

\* buf.EnsureSpace(n)
PoolEnsureSpace ==
    \E n \in 0..MaxSpace :
    \E st \in EnsureSpace(BufState, n) :
        /\ buf' = st.b
        /\ buffers' = st.pool
        /\ mem' = Collect(st.mem, Live(st.b, rc, recyclables, st.pool))
        /\ last' = NoOp
        /\ UNCHANGED <<config, rc, appended, readerVars>>

\* No reader made from buf holds chunks: the readCloser is drained or closed
\* and every recyclable reader is recycled.
ReadersDone ==
    /\ rc.bufs = <<>>
    /\ \A o \in 1..Len(readers) : readers[o].isRecycle

\* rc = buf.ReadCloser(), once the readers made before are done.
PoolReadCloser ==
    LET x == ReadCloser(BufState) IN
    /\ ReadersDone
    /\ rc' = x.rc
    /\ buf' = x.st.b
    /\ appended' = <<>>
    /\ last' = NoOp
    /\ UNCHANGED <<config, buffers, mem, readerVars>>

\* buf.RecyclableReader(), once the readers made before are done.
PoolRecyclableReader ==
    \E g \in PoolGet(readerPool, Len(readers), MaxReaders) :
    \E n \in newRecyclable(recyclables, recyclablePool, BufferChunks(buf)) :
        /\ ReadersDone
        /\ g.id <= MaxPoolReaders /\ n.d <= MaxPoolReaders
        /\ recyclables' = n.recyclables
        /\ recyclablePool' = n.recyclablePool
        /\ readers' = Store(readers, g.id, Overwrite(Got(readers, g), n.d))
        /\ readerPool' = g.pool
        /\ buf' = EmptyBuffer
        /\ appended' = <<>>
        /\ last' = NoOp
        /\ UNCHANGED <<config, buffers, mem, rc, everRecycled, threads>>

\* x is what an operation of rc returned.
RcStep(x) ==
    /\ rc' = x.r
    /\ buffers' = x.pool
    /\ mem' = Collect(mem, Live(buf, x.r, recyclables, x.pool))
    /\ last' = NoOp
    /\ UNCHANGED <<config, buf, appended, readerVars>>

\* rc.Read(p) with len(p) = plen
RcRead ==
    \E plen \in 0..MaxSpace : RcStep(rcRead(mem, buffers, rc, plen))

\* rc.WriteTo(w)
RcWriteTo ==
    \E quota \in Quotas :
        RcStep(rcWriteTo(mem, buffers, rc, quota))

\* rc.Close()
RcClose == RcStep(rcClose(buffers, rc))

NextPool ==
    \/ Configure
    \/ PoolAppendBytes
    \/ PoolEnsureSpace
    \/ BufBuildBytes
    \/ PoolDumpTo
    \/ PoolWriteTo
    \/ PoolReadCloser
    \/ PoolRecyclableReader
    \/ RcRead
    \/ RcWriteTo
    \/ RcClose
    \/ Recycle

SpecPool == InitPool /\ [][NextPool]_vars

----------------------------------------------------------------------------
(* A buffer is built, a readCloser is made from it and used, with what    *)
(* each of its calls returned.                                             *)

ReaderOps == {"ReadCloser", "Read", "WriteTo", "Close"}

\* A readCloser is in use: made and not yet given up.
InUse == last.op \in ReaderOps

\* buf.AppendBytes(data), before the readCloser is made.
RcAppendBytes == ~InUse /\ BufAppendBytes

\* buf.EnsureSpace(n), before the readCloser is made.
RcEnsureSpace == ~InUse /\ PoolEnsureSpace

\* rc = buf.ReadCloser()
OneShotReadCloser ==
    LET x == ReadCloser(BufState) IN
    /\ ~InUse
    /\ rc' = x.rc
    /\ buf' = x.st.b
    /\ appended' = <<>>
    /\ last' = [NoOp EXCEPT !.op = "ReadCloser", !.src = Bytes(mem, buf),
                            !.held = x.rc.bufs]
    /\ UNCHANGED <<config, buffers, mem, readerVars>>

\* x is what operation op of rc returned when called with arg.
OneShotStep(op, arg, x) ==
    /\ InUse
    /\ rc' = x.r
    /\ buffers' = x.pool
    /\ mem' = Collect(mem, Live(buf, x.r, recyclables, x.pool))
    /\ last' = [last EXCEPT !.op = op, !.arg = arg, !.out = x.out, !.err = x.err,
                            !.pre = last.pre \o last.out]
    /\ UNCHANGED <<config, buf, appended, readerVars>>

\* rc.Read(p) with len(p) = plen
OneShotRead ==
    \E plen \in 0..MaxData :
        OneShotStep("Read", <<plen>>, rcRead(mem, buffers, rc, plen))

\* rc.WriteTo(w)
OneShotWriteTo ==
    \E quota \in Quotas :
        OneShotStep("WriteTo", <<quota>>, rcWriteTo(mem, buffers, rc, quota))

\* rc.Close()
OneShotClose ==
    LET x == rcClose(buffers, rc) IN
    OneShotStep("Close", <<>>, [r |-> x.r, pool |-> x.pool, out |-> <<>>, err |-> "nil"])

NextRc ==
    \/ RcAppendBytes
    \/ RcEnsureSpace
    \/ OneShotReadCloser
    \/ OneShotRead
    \/ OneShotWriteTo
    \/ OneShotClose

SpecRc == InitBuf /\ [][NextRc]_vars

----------------------------------------------------------------------------
(* Threads that each work on their own clones of one Shared Chunk Set.  A  *)
(* step is one atomic operation of the code (isRecycle.Swap, isRecycle.Add,*)
(* sync.Pool Get and Put) with the thread's own work before the next one.  *)

\* Number of threads.
NThreads == 2
\* Largest number of recyclableReadCloser objects the threads allocate.
MaxConcReaders == 3

Threads == 1..NThreads

\* A thread between two calls: own is the cursors it holds.
Idle(own) == [pc |-> "idle", o |-> 0, bufs |-> 0, seen |-> 0, own |-> own]

\* isRecycle.Add(d) that stores what the thread saw when its call began,
\* as a load and a store would.
RacyAdd(cur, d, seen) == seen + d

\* isRecycle.Add(d) on a count that is cur: the new value, which Add returns.
AtomicAdd(cur, d, seen) == cur + d

\* One set of MaxSetLen bytes, NThreads cursors over it (a reader and its
\* clones), one for each thread.
InitConc ==
    /\ config = ReaderConfig
    /\ \E st \in AppendBytes([b    |-> EmptyBuffer,
                              mem  |-> Collect(<<>>, {}),
                              pool |-> initBuffers(initBuffers(<<>>, DefaultConfig),
                                                   ReaderConfig)],
                             [i \in 1..MaxSetLen |-> ((i - 1) % NBytes) + 1]) :
          /\ mem = st.mem
          /\ buffers = st.pool
          /\ recyclables = <<[data |-> BufferChunks(st.b), isRecycle |-> NThreads]>>
    /\ readers = [t \in Threads |-> NewCursor(1)]
    /\ threads = [t \in Threads |-> Idle({t})]
    /\ buf = EmptyBuffer
    /\ rc = NoReader
    /\ recyclablePool = EmptyBag
    /\ readerPool = EmptyBag
    /\ appended = <<>>
    /\ everRecycled = {}
    /\ last = NoOp

\* What the steps of a thread leave alone.
concFrame == <<config, buf, rc, appended, last>>

\* Thread t calls o.Close(): isClose.Swap(true).
TClose(t) ==
    \E o \in threads[t].own :
        /\ threads[t].pc = "idle"
        /\ readers' = [readers EXCEPT ![o] = Closed(@)]
        /\ UNCHANGED <<concFrame, buffers, mem, recyclables, recyclablePool,
                       readerPool, threads, everRecycled>>

\* Thread t calls o.Read(p).
TRead(t) ==
    \E o \in threads[t].own, plen \in {MaxSetLen - 1} :
        /\ threads[t].pc = "idle"
        /\ readers' = [readers EXCEPT ![o] = ReaderRead(mem, recyclables, @, plen).c]
        /\ UNCHANGED <<concFrame, buffers, mem, recyclables, recyclablePool,
                       readerPool, threads, everRecycled>>

\* Thread t calls o.Clone(): bufs := r.bufs.
TCloneBegin(t) ==
    \E o \in threads[t].own :
        LET bufs == readers[o].bufs IN
        /\ threads[t].pc = "idle"
        /\ Len(readers) < MaxConcReaders \/ readerPool # EmptyBag
        /\ threads' = [threads EXCEPT ![t] =
               [@ EXCEPT !.pc = "clone", !.o = o, !.bufs = bufs,
                         !.seen = IF bufs = 0 THEN 0 ELSE recyclables[bufs].isRecycle]]
        /\ UNCHANGED <<concFrame, buffers, mem, recyclables, recyclablePool,
                       readers, readerPool, everRecycled>>

\* Clone: bufs.isRecycle.Add(1)
TCloneAdd(t) ==
    LET th == threads[t] IN
    /\ th.pc = "clone"
    /\ recyclables' = IF th.bufs = 0 THEN recyclables
                      ELSE [recyclables EXCEPT ![th.bufs].isRecycle =
                                                  AtomicAdd(@, 1, th.seen)]
    /\ threads' = [threads EXCEPT ![t].pc = "get"]
    /\ UNCHANGED <<concFrame, buffers, mem, recyclablePool, readers, readerPool,
                   everRecycled>>

\* Clone: d := recyclableReadCloserPool.Get(); *d = recyclableReadCloser{bufs}
TCloneGet(t) ==
    LET th == threads[t] IN
    \E g \in PoolGet(readerPool, Len(readers), MaxConcReaders) :
        /\ th.pc = "get"
        /\ readers' = Store(readers, g.id, Overwrite(Got(readers, g), th.bufs))
        /\ readerPool' = g.pool
        /\ threads' = [threads EXCEPT ![t] = Idle(th.own \cup {g.id})]
        /\ UNCHANGED <<concFrame, buffers, mem, recyclables, recyclablePool,
                       everRecycled>>

\* Thread t calls o.Recycle(): r.isRecycle.Swap(true).
TRecycleBegin(t) ==
    \E o \in threads[t].own :
        LET th   == threads[t]
            bufs == readers[o].bufs
        IN  /\ th.pc = "idle"
            /\ readers' = [readers EXCEPT ![o].isRecycle = TRUE]
            /\ everRecycled' = everRecycled \cup {o}
            /\ threads' = [threads EXCEPT ![t] =
                   IF readers[o].isRecycle THEN Idle(th.own \ {o})
                   ELSE [th EXCEPT !.pc = "dec", !.o = o, !.bufs = bufs,
                                   !.seen = IF bufs = 0 THEN 0
                                            ELSE recyclables[bufs].isRecycle]]
            /\ UNCHANGED <<concFrame, buffers, mem, recyclables, recyclablePool,
                           readerPool>>

\* recyclable.Recycle: r.isRecycle.Add(-1) == 0
TRecycleDec(t) ==
    LET th == threads[t]
        v  == AtomicAdd(recyclables[th.bufs].isRecycle, -1, th.seen)
    IN  /\ th.pc = "dec"
        /\ IF th.bufs = 0
           THEN /\ threads' = [threads EXCEPT ![t].pc = "put"]
                /\ UNCHANGED recyclables
           ELSE /\ recyclables' = [recyclables EXCEPT ![th.bufs].isRecycle = v]
                /\ threads' = [threads EXCEPT ![t].pc = IF v = 0 THEN "free" ELSE "put"]
        /\ UNCHANGED <<concFrame, buffers, mem, recyclablePool, readers, readerPool,
                       everRecycled>>

\* recyclable.Recycle: data := r.data; r.data = nil; putBuf of every chunk;
\* recyclablePool.Put(r)
TRecycleFree(t) ==
    LET th   == threads[t]
        data == recyclables[th.bufs].data
        pool == putBufs(buffers, data)
        recs == [recyclables EXCEPT ![th.bufs].data = <<>>]
    IN  /\ th.pc = "free"
        /\ recyclables' = recs
        /\ buffers' = pool
        /\ recyclablePool' = recyclablePool (+) SetToBag({th.bufs})
        /\ mem' = Collect(mem, Live(buf, rc, recs, pool))
        /\ threads' = [threads EXCEPT ![t].pc = "put"]
        /\ UNCHANGED <<concFrame, readers, readerPool, everRecycled>>

\* Recycle: r.bufs = nil; recyclableReadCloserPool.Put(r)
TRecyclePut(t) ==
    LET th == threads[t] IN
    /\ th.pc = "put"
    /\ readers' = [readers EXCEPT ![th.o].bufs = 0]
    /\ readerPool' = readerPool (+) SetToBag({th.o})
    /\ threads' = [threads EXCEPT ![t] = Idle(th.own \ {th.o})]
    /\ UNCHANGED <<concFrame, buffers, mem, recyclables, recyclablePool,
                   everRecycled>>

NextConc ==
    \E t \in Threads :
        \/ TClose(t)
        \/ TRead(t)
        \/ TCloneBegin(t)
        \/ TCloneAdd(t)
        \/ TCloneGet(t)
        \/ TRecycleBegin(t)
        \/ TRecycleDec(t)
        \/ TRecycleFree(t)
        \/ TRecyclePut(t)

SpecConc == InitConc /\ [][NextConc]_vars

----------------------------------------------------------------------------
(* Claims about the buffer, checked under SpecBuf. *)

\* C1: after any sequence of AppendByte / AppendBytes / AppendString calls on
\* an empty buffer, Size() is the number of bytes appended, and BuildBytes()
\* returns the appended data concatenated in append order: both what it
\* would return in the present state and what the last call returned.
C1_SizeAndBuildBytes ==
    /\ Size(buf) = Len(appended)
    /\ BuildBytes(BufState, -1).ret = appended
    /\ last.op = "BuildBytes" => last.out = last.pre

\* C1 witness: BuildBytes has returned the MaxTotal bytes of several appends.
C1_Witness ==
    /\ last.op = "BuildBytes"
    /\ Len(last.pre) = MaxTotal
    /\ last.out = last.pre

\* C2: once more than MaxSize bytes are appended in all, or in one datum, the
\* buffer holds them in several chunks, spilled chunks first, and its
\* contents are still the appended data: none dropped, doubled or moved.
C2_SlowPathExact ==
    (Len(appended) > config.MaxSize \/ Len(last.arg) > config.MaxSize) =>
        /\ Len(buf.bufs) >= 1
        /\ Bytes(mem, buf) = appended
        /\ \A i \in 1..Len(appended) :
              \E k \in 1..Len(buf.bufs) + 1 :
                 LET chunks == BufferChunks(buf)
                     before == SumLen(SubSeq(chunks, 1, k - 1))
                 IN  /\ before < i /\ i <= before + chunks[k].len
                     /\ mem[chunks[k].arr][i - before] = appended[i]

\* C2 witness: one datum longer than MaxSize has been appended by the slow
\* path and lies in more than one chunk.
C2_Witness ==
    /\ last.op \in {"AppendBytes", "AppendString"}
    /\ Len(last.arg) > config.MaxSize
    /\ Len(buf.bufs) >= 1
    /\ Bytes(mem, buf) = last.pre \o last.arg

----------------------------------------------------------------------------
(* Claims about recyclable readers, checked under Spec.  A cursor is a     *)
(* recyclableReadCloser object, known to its user by its address.          *)

ReaderIds == 1..Len(readers)
SetIds == 1..Len(recyclables)

\* The cursors over set r that have not been recycled.
Unrecycled(r) == { o \in ReaderIds : readers[o].bufs = r /\ ~readers[o].isRecycle }

\* How often the array of chunk c lies in the free list of its capacity.
PoolCopies(pool, c) == IF c.cap \in DOMAIN pool THEN CopiesIn(c.arr, pool[c.cap]) ELSE 0

\* Whether array a lies in some free list.
Pooled(pool, a) == \E k \in DOMAIN pool : BagIn(a, pool[k])

\* Cursor o, not recycled and over a set, is recycled by this step.
Recycles(o) ==
    /\ ~readers[o].isRecycle
    /\ readers[o].bufs # 0
    /\ readers'[o].isRecycle

\* This step releases every chunk of data to the pool, each once: a chunk
\* of a pooled capacity was in no free list and is now once in that of its
\* capacity, and no other array entered or left a free list.
ReleasesAll(data) ==
    /\ \A i \in 1..Len(data) :
          /\ ~Pooled(buffers, data[i].arr)
          /\ (data[i].cap >= config.PooledSize /\ data[i].cap \in DOMAIN buffers)
                => PoolCopies(buffers', data[i]) = 1
    /\ \A k \in DOMAIN buffers :
          \A a \in (BagToSet(buffers[k]) \cup BagToSet(buffers'[k])) \ Arrays(data) :
             CopiesIn(a, buffers'[k]) = CopiesIn(a, buffers[k])

C3_Step ==
    \A o \in ReaderIds :
        Recycles(o) =>
            LET r == readers[o].bufs IN
            IF Cardinality(Unrecycled(r)) > 1
            THEN /\ buffers' = buffers
                 /\ recyclables'[r].data = recyclables[r].data
            ELSE ReleasesAll(recyclables[r].data)

\* C3: when a cursor of a set with k un-recycled cursors is recycled, no
\* chunk is released to the pool if k > 1, and every chunk of the set is
\* released, each exactly once, if k = 1.
C3_ReleaseOnLastRecycle == [][C3_Step]_vars

\* C3 witness: a set is freed, its cursor and the clone both recycled, and
\* its pooled chunk is once in its free list.
C3_Witness ==
    /\ Len(readers) = 2 /\ Len(recyclables) = 1
    /\ \A o \in ReaderIds : readers[o].isRecycle
    /\ recyclables[1].isRecycle = 0
    /\ \E a \in DOMAIN mem : CopiesIn(a, buffers[config.PooledSize]) = 1

C4_Step ==
    \A o \in everRecycled :
        RecycleStep(o) => /\ recyclables' = recyclables
                          /\ buffers' = buffers

\* C4: Recycle is idempotent: a Recycle call on a cursor after the first
\* one on it changes no reference count and releases no chunk, whatever
\* was cloned or created in between.
C4_RecycleIdempotent == [][C4_Step]_vars

\* What a closed cursor c answers to Read when bytes are left: the error.
ClosedRead(c, plen) ==
    LET x == ReaderRead(mem, recyclables, c, plen)
        n == ReaderLen(recyclables, c).n
    IN  /\ x.out = <<>>
        /\ x.c.offsetLen = c.offsetLen
        /\ x.err = IF c.offsetLen < n THEN "closed" ELSE "EOF"

ClosedWriteTo(c, quota) ==
    LET x == ReaderWriteTo(mem, recyclables, c, quota)
        n == ReaderLen(recyclables, c).n
    IN  /\ x.out = <<>>
        /\ x.c.offsetLen = c.offsetLen
        /\ x.err = IF c.offsetLen < n THEN "closed" ELSE "nil"

C5_State ==
    \A o \in ReaderIds :
        readers[o].isClose =>
            /\ \A plen \in 0..MaxSetLen : ClosedRead(readers[o], plen)
            /\ \A quota \in 0..MaxSetLen : ClosedWriteTo(readers[o], quota)

C5_Step ==
    \A o \in ReaderIds :
        (readers[o].isClose /\ Recycles(o)) =>
            LET r == readers[o].bufs IN
            /\ recyclables'[r].isRecycle = recyclables[r].isRecycle - 1
            /\ Cardinality(Unrecycled(r)) = 1 => ReleasesAll(recyclables[r].data)

PlainStep(o) ==
    \/ CloseStep(o)
    \/ ResetStep(o)
    \/ LenStep(o)
    \/ BytesStep(o)
    \/ \E plen \in 0..MaxSetLen : ReadStep(o, plen)
    \/ \E quota \in 0..MaxSetLen : WriteToStep(o, quota)

C6_Step ==
    /\ \A o \in ReaderIds : PlainStep(o) => recyclables' = recyclables
    /\ \A r \in SetIds :
          recyclables'[r].isRecycle < recyclables[r].isRecycle =>
              /\ recyclables'[r].isRecycle = recyclables[r].isRecycle - 1
              /\ \E o \in ReaderIds :
                    /\ RecycleStep(o)
                    /\ Recycles(o)
                    /\ readers[o].bufs = r
                    /\ readers'[o].bufs = 0
              /\ \A q \in SetIds \ {r} :
                    recyclables'[q].isRecycle = recyclables[q].isRecycle

\* C6: Close, Read, WriteTo, Reset, Len and Bytes leave every reference
\* count as it is; a count only goes down in a Recycle step of a cursor of
\* that set that was not recycled, by exactly 1, and the step leaves the
\* cursor recycled and off the set, so that it takes no second reference.
C6_OnlyRecycleDecrements == [][C6_Step]_vars

\* C6 witness: a set with two references, one of them a closed cursor.
C6_Witness ==
    \E o \in ReaderIds :
        /\ readers[o].isClose /\ ~readers[o].isRecycle /\ readers[o].bufs # 0
        /\ recyclables[readers[o].bufs].isRecycle = 2

\* C7: the reference count of every set is the number of cursors over it
\* that have not been recycled (1 after RecyclableReader, one more with
\* each Clone, one less with each first Recycle).
C7_RefCountIsCursors ==
    \A r \in SetIds : recyclables[r].isRecycle = Cardinality(Unrecycled(r))

\* C7 witness: a live set with one cursor left after a clone was made and
\* one of the two was recycled.
C7_Witness ==
    \E r \in SetIds :
        /\ recyclables[r].isRecycle = 1
        /\ Cardinality(Unrecycled(r)) = 1
        /\ \E o \in ReaderIds : readers[o].isRecycle
        /\ Len(recyclables) = 1 /\ recyclablePool = EmptyBag

\* The new cursor of a Clone step starts at 0 with both flags false.
FreshCursor(c) ==
    /\ c.offset = 0 /\ c.index = 0 /\ c.offsetLen = 0
    /\ ~c.isClose /\ ~c.isRecycle

C8_Step ==
    \A o \in ReaderIds :
    \A g \in PoolGet(readerPool, Len(readers), MaxReaders) :
        CloneStep(o, g) =>
            LET r == readers[o].bufs IN
            /\ FreshCursor(readers'[g.id])
            /\ readers'[g.id].bufs = r
            /\ IF r # 0
               THEN /\ recyclables'[r].isRecycle = recyclables[r].isRecycle + 1
                    /\ \A q \in SetIds \ {r} : recyclables'[q] = recyclables[q]
               ELSE recyclables' = recyclables

\* C8 (as amended): Clone on a cursor that is over a set, partly read or
\* closed, returns a cursor over the same set at position 0 with closed and
\* recycled false, and adds exactly 1 to the reference count of the set;
\* Clone on a recycled cursor returns a cursor at position 0 with both flags
\* false that is over no set, and changes no reference count.
C8_Clone == [][C8_Step]_vars

C8_StepAsClaimed ==
    \A o \in ReaderIds :
    \A g \in PoolGet(readerPool, Len(readers), MaxReaders) :
        CloneStep(o, g) =>
            /\ FreshCursor(readers'[g.id])
            /\ \E r \in SetIds :
                  /\ readers'[g.id].bufs = r
                  /\ recyclables'[r].isRecycle = recyclables[r].isRecycle + 1

\* C8 as claimed: Clone on a cursor in any state, recycled included, returns
\* a cursor over a set, at position 0 with both flags false, and adds
\* exactly 1 to the reference count of that set.
C8_CloneAnyState == [][C8_StepAsClaimed]_vars

\* C8 witness: the clone of a closed, partly read cursor: at position 0,
\* open, over the same set, which has two references.
C8_Witness ==
    \E o, c \in ReaderIds :
        /\ o # c
        /\ readers[o].bufs # 0 /\ readers[c].bufs = readers[o].bufs
        /\ readers[o].isClose /\ readers[o].offsetLen > 0
        /\ readers[c] = NewCursor(readers[o].bufs)
        /\ recyclables[readers[o].bufs].isRecycle = 2

\* C9: the bytes Bytes() returns on a clone are those it returns on the
\* cursor cloned, however far that one has read: for every cursor over a
\* set they are the content the set was made with, the same for any two
\* cursors over the set and the same as after Reset.
C9_CloneBytes ==
    \A o \in ReaderIds :
        readers[o].bufs # 0 =>
            LET x == ReaderBytes(mem, recyclables, readers[o]) IN
            /\ x.err = "nil"
            /\ x.out \in ReaderInputs
            /\ Len(x.out) = SumLen(recyclables[readers[o].bufs].data)
            /\ x.out = ReaderBytes(mem, recyclables, ReaderReset(readers[o])).out
            /\ \A c \in ReaderIds :
                  readers[c].bufs = readers[o].bufs =>
                      ReaderBytes(mem, recyclables, readers[c]).out = x.out

\* C9 witness: a cursor that has read part of the data and a clone of it at
\* position 0, over a set of MaxSetLen bytes.
C9_Witness ==
    \E o, c \in ReaderIds :
        /\ readers[o].bufs # 0 /\ readers[c].bufs = readers[o].bufs
        /\ readers[o].offsetLen > 0 /\ readers[c].offsetLen = 0
        /\ Len(ReaderBytes(mem, recyclables, readers[c]).out) = MaxSetLen

\* What the user of a cursor c can observe of it: the result of each
\* operation on it (Read of one byte and of every byte, WriteTo a sink that
\* takes every byte, Bytes, Len), with the cursor each leaves.
Observe(m, recs, c) ==
    [read  |-> [plen \in {1, MaxSetLen} |-> ReaderRead(m, recs, c, plen)],
     write |-> [quota \in {MaxSetLen} |-> ReaderWriteTo(m, recs, c, quota)],
     bytes |-> ReaderBytes(m, recs, c),
     len   |-> ReaderLen(recs, c)]

C10_Step ==
    \A b \in ReaderIds :
        (\/ CloseStep(b)
         \/ ResetStep(b)
         \/ \E plen \in 0..MaxSetLen : ReadStep(b, plen)
         \/ \E quota \in 0..MaxSetLen : WriteToStep(b, quota))
        => \A a \in ReaderIds \ {b} :
              ~readers[a].isRecycle =>
                  Observe(mem', recyclables', readers'[a])
                      = Observe(mem, recyclables, readers[a])

\* C10: cursors do not interfere: a Read, WriteTo, Reset or Close on cursor
\* b changes the result of no operation on another un-recycled cursor a, so
\* that two runs that differ only in those operations on b give a the same
\* bytes and the same errors.
C10_NoInterference == [][C10_Step]_vars

\* C10 witness: two un-recycled cursors over one set, b closed after
\* reading, a open and at another position.
C10_Witness ==
    \E a, b \in ReaderIds :
        /\ a # b
        /\ readers[a].bufs # 0 /\ readers[b].bufs = readers[a].bufs
        /\ ~readers[a].isRecycle /\ ~readers[b].isRecycle
        /\ readers[b].isClose /\ ~readers[a].isClose
        /\ readers[b].offsetLen > 0
        /\ readers[a].offsetLen > 0
        /\ readers[a].offsetLen # readers[b].offsetLen

\* Every byte the reads of cursor c return, each into room for plen bytes,
\* up to the first read that returns an error.
RECURSIVE ReadAllBy(_, _, _, _, _)
ReadAllBy(m, recs, c, plen, fuel) ==
    LET x == ReaderRead(m, recs, c, plen)
    IN  IF x.err # "nil" \/ fuel = 0 THEN x.out
        ELSE x.out \o ReadAllBy(m, recs, x.c, plen, fuel - 1)

C11_Step ==
    \A o \in ReaderIds :
        ResetStep(o) =>
            LET c == readers[o]
                d == readers'[o]
            IN  /\ d.offset = 0 /\ d.index = 0 /\ d.offsetLen = 0
                /\ d.isClose = c.isClose /\ d.isRecycle = c.isRecycle
                /\ d.bufs = c.bufs
                /\ recyclables' = recyclables
                /\ buffers' = buffers
                /\ \A a \in ReaderIds \ {o} : readers'[a] = readers[a]
                /\ (c.bufs # 0 /\ ~c.isClose) =>
                      \A plen \in 1..MaxSetLen :
                          ReadAllBy(mem', recyclables', d, plen, MaxSetLen)
                              = Concat(mem, recyclables[c.bufs].data)

\* C11: Reset puts the cursor at the start of the data: its offsets are 0
\* and, when it is open and over a set, the reads that follow return the
\* whole content of the set from its first byte, whatever the size of the
\* reads.  Reset leaves every reference count, the closed and recycled flags
\* of the cursor and every other cursor as they are.
C11_ResetRewinds == [][C11_Step]_vars

\* C11 witness: a cursor that had read all MaxSetLen bytes has just been
\* reset and reads them again, beside a clone that stays where it was.
C11_Witness ==
    /\ last.op = "Reset"
    /\ LET o == last.arg[1] IN
       /\ readers[o].offsetLen = 0
       /\ ReadAllBy(mem, recyclables, readers[o], 1, MaxSetLen)
              = [i \in 1..MaxSetLen |-> ((i - 1) % NBytes) + 1]
       /\ \E a \in ReaderIds \ {o} :
             /\ readers[a].bufs = readers[o].bufs
             /\ readers[a].offsetLen > 0

----------------------------------------------------------------------------
(* Claims about the pool, the buffer and its readers, checked under        *)
(* SpecPool.                                                               *)

\* The arrays each owner of chunks refers to.
BufArrays == Arrays(<<buf.Buf, buf.toPool>>) \cup Arrays(buf.bufs)
RcArrays == Arrays(rc.bufs)
LiveSets == { r \in SetIds : recyclables[r].isRecycle > 0 }
SetArrays(r) == Arrays(recyclables[r].data)
PoolArrays == UNION { BagToSet(buffers[k]) : k \in DOMAIN buffers }

\* C12: chunk ownership is exclusive: an array in a free list is referred
\* to by no buffer, readCloser or live Shared Chunk Set and lies once in one
\* free list only, and no array is referred to by two of the buffer, the
\* readCloser and the live sets.
C12_ExclusiveOwnership ==
    /\ PoolArrays \cap BufArrays = {}
    /\ PoolArrays \cap RcArrays = {}
    /\ BufArrays \cap RcArrays = {}
    /\ \A r \in LiveSets :
          /\ SetArrays(r) \cap PoolArrays = {}
          /\ SetArrays(r) \cap BufArrays = {}
          /\ SetArrays(r) \cap RcArrays = {}
          /\ \A q \in LiveSets \ {r} : SetArrays(r) \cap SetArrays(q) = {}
    /\ \A k \in DOMAIN buffers :
          \A a \in BagToSet(buffers[k]) :
             /\ CopiesIn(a, buffers[k]) = 1
             /\ \A j \in DOMAIN buffers \ {k} : ~BagIn(a, buffers[j])

\* C12 witness: the buffer, its readCloser and a free list each hold a
\* chunk, after a Shared Chunk Set was made and freed.
C12_Witness ==
    /\ BufArrays # {} /\ RcArrays # {} /\ PoolArrays # {}
    /\ Len(recyclables) = 1 /\ recyclables[1].isRecycle = 0

----------------------------------------------------------------------------
(* Further claims about recyclable readers, checked under Spec. *)

\* The arrays the operations of cursor c read bytes from: those of
\* c.bufs.data, which Read, WriteTo and Bytes range over.
ReadsFrom(c) == IF c.bufs = 0 THEN {} ELSE Arrays(recyclables[c.bufs].data)

C13_State ==
    /\ \A r \in SetIds :
          /\ recyclables[r].isRecycle >= 0
          /\ recyclables[r].isRecycle = 0 => recyclables[r].data = <<>>
    /\ \A o \in ReaderIds :
          /\ readers[o].bufs # 0 => recyclables[readers[o].bufs].isRecycle > 0
          /\ ReadsFrom(readers[o]) \cap PoolArrays = {}

C13_Step ==
    \A r \in SetIds :
        (\E a \in SetArrays(r) : ~Pooled(buffers, a) /\ Pooled(buffers', a)) =>
            /\ recyclables[r].isRecycle = 1
            /\ ReleasesAll(recyclables[r].data)
            /\ \A o \in ReaderIds : ReadsFrom(readers[o]) \cap SetArrays(r) # {}
                                       => readers'[o].bufs = 0

\* C13: the reference count of every set is never negative; the chunks of
\* a set enter the free lists only in the step that takes its count from 1
\* to 0, each once, and a freed set keeps no chunk to release again; no
\* cursor is left over a freed set, and no operation of a cursor reads from
\* an array that lies in a free list.
C13_ReleaseOnceNoUseAfter == []C13_State /\ [][C13_Step]_vars

\* C13 witness: a set was freed and its chunk lies in a free list, its
\* cursor recycled, while another cursor is over a live set.
C13_Witness ==
    /\ \E r \in SetIds : recyclables[r].isRecycle = 0
    /\ PoolArrays # {}
    /\ \E o \in ReaderIds : readers[o].isRecycle /\ readers[o].bufs = 0
    /\ \E o \in ReaderIds : ReadsFrom(readers[o]) # {}

----------------------------------------------------------------------------
(* Claims about threads on their own clones, checked under SpecConc. *)

\* The references to set r that are held: its cursors that have not been
\* recycled, the clones whose count is added and whose cursor is not yet
\* made, and the Recycle calls that have set the flag and not yet subtracted.
Held(r) ==
    Cardinality({o \in ReaderIds : readers[o].bufs = r /\ ~readers[o].isRecycle})
    + Cardinality({t \in Threads : threads[t].bufs = r /\ threads[t].pc \in {"get", "dec"}})

\* The states where no update of a count is lost.
C14_Counts == \A r \in SetIds : recyclables[r].isRecycle = Held(r)

\* Every thread has recycled every cursor it held.
AllDone == \A t \in Threads : threads[t].pc = "idle" /\ threads[t].own = {}

\* Once every cursor is recycled the set is released, its pooled chunks in
\* the pool once.
C14_Final ==
    AllDone => \A r \in SetIds :
                  /\ recyclables[r].data = <<>>
                  /\ BagToSet(recyclablePool) = SetIds
                  /\ \A k \in DOMAIN buffers : \A a \in BagToSet(buffers[k]) :
                        CopiesIn(a, buffers[k]) = 1

\* A step that releases the chunks of a set releases all of them, once, when
\* no cursor over the set is left that has not been recycled.
C14_Step ==
    \A r \in SetIds :
        (recyclables[r].data # <<>> /\ recyclables'[r].data = <<>>) =>
            /\ Held(r) = 0
            /\ \A o \in ReaderIds : readers[o].bufs = r => readers[o].isRecycle
            /\ ReleasesAll(recyclables[r].data)
            /\ recyclablePool' = recyclablePool (+) SetToBag({r})

\* C14: for every interleaving of Clone, Read, Close and Recycle by threads
\* on their own clones of one set, no update of the count is lost, and the
\* set's chunks are released exactly once, only after the last cursor that
\* was not recycled has been recycled.
C14_Concurrent == [](C14_Counts /\ C14_Final) /\ [][C14_Step]_vars

\* Both threads are done, one of them has made a clone, the set is released.
C14_Witness ==
    /\ AllDone
    /\ Len(readers) = MaxConcReaders
    /\ \E s \in BagToSet(buffers[ReaderConfig.PooledSize]) : TRUE

----------------------------------------------------------------------------
(* Claims about the pool's free lists, checked under SpecPool. *)

\* The capacities asked of getBuf.
Requests == 0..(MaxTotal + 1) \cup {DefaultConfig.PooledSize}

\* C15: after any sequence of releases and Init calls, getBuf(s) returns a
\* chunk of length 0 and of capacity at least s, which its array holds.
C15_GetBuf ==
    \A s \in Requests :
        \A g \in getBuf(mem, buffers, s) :
            /\ g.buf.len = 0
            /\ g.buf.cap >= s
            /\ g.buf.arr \in DOMAIN g.mem
            /\ Len(g.mem[g.buf.arr]) >= g.buf.cap

\* A chunk released after an Init call lies in a free list the present
\* configuration did not make, and getBuf can return it.
C15_Witness ==
    \E k \in DOMAIN buffers \ Classes(config.PooledSize, config.MaxSize) :
        \E g \in getBuf(mem, buffers, k) : g.buf.arr \in DOMAIN mem

\* The chunks some owner holds, and the nil chunk.
HeldChunks ==
    {Nil} \cup { BufferChunks(buf)[i] : i \in 1..Len(BufferChunks(buf)) }
          \cup { rc.bufs[i] : i \in 1..Len(rc.bufs) }
          \cup UNION { { recyclables[r].data[i] : i \in 1..Len(recyclables[r].data) }
                       : r \in SetIds }

\* getBuf(c.cap) on pool p can return chunk c.
CanReuse(p, c) == \E g \in getBuf(mem, p, c.cap) : g.buf.arr = c.arr

\* putBuf(c) puts c once more on the list of its capacity and leaves the
\* other lists alone.
PutsOnList(c) ==
    LET p == putBuf(buffers, c) IN
    /\ DOMAIN p = DOMAIN buffers
    /\ p[c.cap] = buffers[c.cap] (+) SetToBag({c.arr})
    /\ \A k \in DOMAIN buffers \ {c.cap} : p[k] = buffers[k]
    /\ CanReuse(p, c)

\* The step is a BuildBytes on a buffer with spills.
BuildsSpilled == last'.op = "BuildBytes" /\ buf.bufs # <<>>

\* C16 as stated: putBuf of any chunk of capacity >= PooledSize puts it on
\* the free list of its capacity.
C16_Original ==
    \A c \in HeldChunks :
        c.cap >= config.PooledSize =>
            PoolCopies(putBuf(buffers, c), c) = PoolCopies(buffers, c) + 1

C16_State ==
    \A c \in HeldChunks :
        IF c.cap >= config.PooledSize /\ c.cap \in DOMAIN buffers
        THEN PutsOnList(c)
        ELSE putBuf(buffers, c) = buffers

C16_Step ==
    BuildsSpilled =>
        \A c \in HeldChunks :
            (c.arr \in Arrays(BufferChunks(buf)) /\ c.cap >= config.PooledSize
               /\ c.cap \in DOMAIN buffers)
                => /\ CopiesIn(c.arr, buffers'[c.cap]) = 1
                   /\ \E g \in getBuf(mem', buffers', c.cap) : g.buf.arr = c.arr

\* C16: putBuf of a chunk whose capacity is at least PooledSize and has a
\* free list puts the chunk on that list, so that a later getBuf of that
\* capacity can return it; putBuf of any other chunk, nil included, changes
\* nothing; after BuildBytes on a buffer with spills every chunk of such a
\* capacity the buffer held is in the pool.
C16_Release == []C16_State /\ [][C16_Step]_vars

\* BuildBytes on a buffer with spills has put the second chunk, of capacity
\* PooledSize, in the pool.
C16_Witness ==
    /\ last.op = "BuildBytes" /\ Len(last.pre) > config.StartSize
    /\ config.PooledSize = 2 * config.StartSize
    /\ \E a \in DOMAIN mem : BagIn(a, buffers[config.PooledSize])

\* The size classes of the present configuration.
NewClasses == Classes(config.PooledSize, config.MaxSize)

\* C17: after Init(cfg) the pool has a free list for exactly the capacities
\* PooledSize * 2^k <= MaxSize: no chunk lies in, or is returned by getBuf
\* from, a list of another capacity, be it released before the call or
\* after it.
C17_InitRebuilds ==
    /\ \A k \in DOMAIN buffers \ NewClasses : buffers[k] = EmptyBag
    /\ \A s \in Requests \ NewClasses :
          \A g \in getBuf(mem, buffers, s) : g.buf.arr \notin DOMAIN mem
    /\ DOMAIN buffers = NewClasses

----------------------------------------------------------------------------
(* Claims about buf and its finalizations, checked under SpecPool. *)

\* C18: after EnsureSpace(n), for every n >= 0 and every state of the
\* buffer, the active chunk has at least n free bytes.
C18_EnsureSpace ==
    \A n \in 0..MaxSpace :
        \A st \in EnsureSpace(BufState, n) :
            st.b.Buf.cap - st.b.Buf.len >= n

\* The buffer of st is empty: no bytes, no spilled chunk, no active chunk,
\* and the next chunk made for it has capacity StartSize.
Emptied(st) ==
    /\ Size(st.b) = 0
    /\ st.b.bufs = <<>>
    /\ st.b.Buf = Nil
    /\ \A n \in EnsureSpace(st, 1) : n.b.Buf.cap = config.StartSize /\ n.b.bufs = <<>>

\* The step makes a Shared Chunk Set: buf.RecyclableReader().
MakesSet ==
    \E r \in 1..Len(recyclables') :
        /\ recyclables'[r].data # <<>>
        /\ r \in SetIds => recyclables[r].data = <<>>

C19_State ==
    /\ \A reuseCap \in {-1, MaxTotal} : Emptied(BuildBytes(BufState, reuseCap).st)
    /\ Emptied(ReadCloser(BufState).st)
    /\ \A quota \in Quotas :
          /\ Emptied(DumpTo(BufState, quota).st)
          /\ Emptied(BufferWriteTo(BufState, quota).st)

C19_Step == MakesSet => Emptied([b |-> buf', mem |-> mem', pool |-> buffers'])

\* C19: BuildBytes, DumpTo, WriteTo, ReadCloser and RecyclableReader leave
\* the buffer empty, whatever they return, a sink write error included:
\* Size() is 0, there is no spilled and no active chunk, and the next append
\* starts with a chunk of StartSize.
C19_FinalizeEmpties == []C19_State /\ [][C19_Step]_vars

----------------------------------------------------------------------------
(* Claims about flushing buf to a sink, checked under SpecBuf. *)

\* The chunks of buf the sink took whole when it took n bytes in all.
TakenWhole(n) ==
    LET chunks == BufferChunks(buf)
    IN  { chunks[i] : i \in { j \in 1..Len(chunks) : SumLen(SubSeq(chunks, 1, j)) <= n } }

\* x is what a flush of buf to a sink that takes quota bytes must return and
\* do: the bytes went out in order up to the first write that failed, x
\* holds that error and the number of bytes taken, and every chunk the sink
\* took whole is in the free list of its capacity, if there is one.
FlushesTo(x, quota) ==
    LET all == Bytes(mem, buf)
        k   == IF quota < Len(all) THEN quota ELSE Len(all)
    IN  /\ x.out = SubSeq(all, 1, k)
        /\ x.n = k
        /\ x.err = IF quota < Len(all) THEN "sink" ELSE "nil"
        /\ \A c \in TakenWhole(k) :
              (c.cap >= config.PooledSize /\ c.cap \in DOMAIN buffers)
                 => CopiesIn(c.arr, x.st.pool[c.cap]) = 1

\* C20: a flush to a sink, by DumpTo and by WriteTo, writes the chunks in
\* order, stops at the first write error, returns that error and the number
\* of bytes the sink took, and has released the chunks written before the
\* error to the pool.
C20_Flush ==
    \A quota \in Quotas :
        /\ FlushesTo(DumpTo(BufState, quota), quota)
        /\ FlushesTo(BufferWriteTo(BufState, quota), quota)

\* x is what a flush to a sink that takes every byte returned, and ret what
\* BuildBytes returns on the same buffer.
SameAsBuilt(x, ret) == x.out = ret /\ x.n = Len(ret) /\ x.err = "nil"

\* C21: the bytes a sink that does not fail receives from DumpTo and from
\* WriteTo are the bytes BuildBytes returns on a buffer built by the same
\* appends, and the count returned is their number.
C21_RoundTrip ==
    \A reuseCap \in {-1, MaxTotal} :
        LET ret == BuildBytes(BufState, reuseCap).ret IN
        /\ SameAsBuilt(DumpTo(BufState, MaxTotal), ret)
        /\ SameAsBuilt(BufferWriteTo(BufState, MaxTotal), ret)

\* A buffer with two spilled chunks and bytes that differ flushes them.
C21_Witness ==
    /\ Len(buf.bufs) >= 2 /\ buf.Buf.len > 0
    /\ DumpTo(BufState, MaxTotal).out = appended
    /\ \E i \in 1..Len(appended) : appended[i] # appended[1]

\* C22 as stated: whenever the capacity of reuse is at least Size(), the
\* result is stored in reuse (here for a buffer that holds bytes).
C22_Original ==
    \A reuseCap \in 0..MaxTotal :
        (Size(buf) > 0 /\ reuseCap >= Size(buf))
            => BuildBytes(BufState, reuseCap).store = "reuse"

\* C22: BuildBytes(reuse) returns the full content whatever reuse is.  With
\* spilled chunks the result is a new slice that leaves reuse alone when
\* cap(reuse) < Size(), and is stored in reuse when cap(reuse) >= Size();
\* without spilled chunks the active chunk is returned and reuse is not used.
C22_Reuse ==
    \A reuseCap \in -1..MaxTotal :
        LET x == BuildBytes(BufState, reuseCap) IN
        /\ x.ret = Bytes(mem, buf)
        /\ x.store = IF buf.bufs = <<>> THEN "chunk"
                     ELSE IF reuseCap >= Size(buf) THEN "reuse" ELSE "new"

\* On a buffer with spilled chunks BuildBytes takes a reuse slice of the
\* exact size and leaves a smaller one alone, and returns the bytes appended.
C22_Witness ==
    /\ buf.bufs # <<>> /\ Size(buf) > 1
    /\ BuildBytes(BufState, Size(buf)).store = "reuse"
    /\ BuildBytes(BufState, Size(buf) - 1).store = "new"
    /\ BuildBytes(BufState, Size(buf) - 1).ret = appended

----------------------------------------------------------------------------
(* Claims about the readCloser, checked under SpecRc. *)

\* The bytes readCloser r has yet to deliver.
Remaining(m, r) ==
    LET all == Concat(m, r.bufs) IN SubSeq(all, r.offset + 1, Len(all))

\* The step is a call of op on rc.
Calls(op) == InUse /\ last' # last /\ last'.op = op

\* While rc holds chunks, what its reads returned and what it has yet to
\* deliver make up the content of the buffer it was made from.
C23_State ==
    (InUse /\ rc.bufs # <<>>) => last.pre \o last.out \o Remaining(mem, rc) = last.src

\* Read(p) returns the next len(p) bytes, or all that remain if fewer, and
\* io.EOF exactly when no chunk is left after it.
C23_Step ==
    Calls("Read") =>
        LET rem  == Remaining(mem, rc)
            plen == last'.arg[1]
            k    == IF plen < Len(rem) THEN plen ELSE Len(rem)
        IN  /\ last'.out = SubSeq(rem, 1, k)
            /\ Remaining(mem', rc') = SubSeq(rem, k + 1, Len(rem))
            /\ last'.err = IF rc'.bufs = <<>> THEN "EOF" ELSE "nil"
            /\ last'.err = "EOF" => Remaining(mem', rc') = <<>>
            /\ rc.bufs = <<>> => last'.err = "EOF" /\ last'.out = <<>>

\* C23: for any sequence of Read calls on a readCloser, with p of any
\* length, the bytes returned are, in order and across chunks, the content
\* of the buffer it was made from; io.EOF is returned once every chunk is
\* consumed and by every Read after that.
C23_ReadAll == []C23_State /\ [][C23_Step]_vars

\* Reads have returned the whole content, the last of them three bytes
\* from chunks of two with io.EOF, and one more Read returns io.EOF alone.
C23_Witness ==
    /\ last.op = "Read" /\ last.err = "EOF"
    /\ last.pre \o last.out = last.src
    /\ Len(last.out) = MaxData /\ config.MaxSize < MaxData /\ last.pre # <<>>
    /\ \E i \in 1..Len(last.src) : last.src[i] # last.src[1]
    /\ rcRead(mem, buffers, rc, 1).err = "EOF"

\* putBuf pools chunk c: its capacity is at least PooledSize and has a list.
Poolable(c) == c.cap >= config.PooledSize /\ c.cap \in DOMAIN buffers

\* How often the array of chunk c lies in the free lists of pool.
Releases(pool, c) ==
    LET ks == { k \in DOMAIN pool : BagIn(c.arr, pool[k]) }
    IN  IF ks = {} THEN 0
        ELSE IF Cardinality(ks) = 1 THEN CopiesIn(c.arr, pool[CHOOSE k \in ks : TRUE])
        ELSE Cardinality(ks)

\* The chunks of a list, as a set.
ChunkSet(chunks) == { chunks[i] : i \in 1..Len(chunks) }

\* No chunk of the readCloser is released twice.
C24_State == InUse => \A c \in ChunkSet(last.held) : Releases(buffers, c) <= 1

\* Read releases the chunks it drains, in that call, and no other; Close
\* leaves every chunk of the reader released, and releases nothing when no
\* chunk is left.
C24_Step ==
    /\ Calls("Read") =>
          \A c \in ChunkSet(rc.bufs) :
              IF c \in ChunkSet(rc'.bufs)
              THEN Releases(buffers', c) = Releases(buffers, c)
              ELSE Poolable(c) => Releases(buffers, c) = 0 /\ PoolCopies(buffers', c) = 1
    /\ Calls("Close") =>
          /\ \A c \in ChunkSet(last.held) : Poolable(c) => PoolCopies(buffers', c) = 1
          /\ rc.bufs = <<>> => buffers' = buffers

\* C24: over any sequence of Read, WriteTo and Close calls on a readCloser,
\* each chunk is released to the pool at most once; Read releases a chunk
\* in the call that drains it; Close releases exactly the chunks not yet
\* released, and nothing after exhaustion or after a Close.
C24_ReleaseOnce == []C24_State /\ [][C24_Step]_vars

\* C25: WriteTo(w) on a readCloser gives the sink what reads from the
\* reader's position would return: after any earlier reads, one that
\* stopped inside a chunk included, exactly the bytes not yet read, each
\* once and in order (as many of them as the sink takes).
C25_Step ==
    Calls("WriteTo") =>
        LET rem   == Remaining(mem, rc)
            quota == last'.arg[1]
            k     == IF quota < Len(rem) THEN quota ELSE Len(rem)
        IN  last'.out = SubSeq(rem, 1, k)

C25_WriteToAsRead == [][C25_Step]_vars

\* C26: when WriteTo(w) on a readCloser has written all the chunks that
\* remained, each of them that putBuf pools lies in the free list of its
\* capacity, as after reads that drained the reader.
C26_Step ==
    (Calls("WriteTo") /\ last'.err = "nil") =>
        \A c \in ChunkSet(rc.bufs) : Poolable(c) => PoolCopies(buffers', c) = 1

C26_WriteToReleases == [][C26_Step]_vars

----------------------------------------------------------------------------
(* Claims about Read and WriteTo of recyclable readers, checked under Spec. *)

\* Cursor c is over a set, not closed and not recycled.
Open(c) == c.bufs # 0 /\ ~c.isClose /\ ~c.isRecycle

\* The content of the set cursor c is over.
Content(c) == Concat(mem, recyclables[c.bufs].data)

\* C27: a Read on an open cursor returns the bytes of the set that follow
\* those already consumed, across chunks, so that reads from position 0
\* return the whole content; it returns io.EOF exactly when the bytes
\* consumed have reached Len(), never before.
C27_Read ==
    \A o \in ReaderIds : \A plen \in 0..MaxSetLen :
        Open(readers[o]) =>
            LET c   == readers[o]
                all == Content(c)
                k   == IF plen < Len(all) - c.offsetLen THEN plen
                       ELSE Len(all) - c.offsetLen
                x   == ReaderRead(mem, recyclables, c, plen)
            IN  /\ c.offsetLen <= Len(all)
                /\ x.out = SubSeq(all, c.offsetLen + 1, c.offsetLen + k)
                /\ x.c.offsetLen = c.offsetLen + k
                /\ x.err = IF x.c.offsetLen >= Len(all) THEN "EOF" ELSE "nil"

\* Reads have left an open cursor inside the second chunk of its set, and
\* the Read of the last byte returns it with io.EOF.
C27_Witness ==
    \E o \in ReaderIds :
        /\ Open(readers[o])
        /\ readers[o].index = 1 /\ readers[o].offset = 1
        /\ LET x == ReaderRead(mem, recyclables, readers[o], MaxSetLen)
           IN  x.err = "EOF" /\ Len(x.out) = 1
                /\ x.out = SubSeq(Content(readers[o]), MaxSetLen, MaxSetLen)

\* WriteTo(w) on an open cursor gives the sink the bytes that follow those
\* consumed, as many as it takes, with the sink's error if it fails, and
\* leaves the cursor after the bytes taken: at the end if the sink took all.
C28_State ==
    \A o \in ReaderIds : \A quota \in 0..MaxSetLen :
        Open(readers[o]) =>
            LET c   == readers[o]
                all == Content(c)
                k   == IF quota < Len(all) - c.offsetLen THEN quota
                       ELSE Len(all) - c.offsetLen
                x   == ReaderWriteTo(mem, recyclables, c, quota)
            IN  /\ x.out = SubSeq(all, c.offsetLen + 1, c.offsetLen + k)
                /\ x.err = IF quota < Len(all) - c.offsetLen THEN "sink" ELSE "nil"
                /\ x.c.offsetLen = c.offsetLen + k
                /\ x.c.bufs = c.bufs /\ x.c.isRecycle = c.isRecycle
                /\ ReaderRead(mem, recyclables, x.c, MaxSetLen).out
                      = SubSeq(all, c.offsetLen + k + 1, Len(all))

\* A WriteTo releases no chunk and changes no reference count.
C28_Step ==
    \A o \in ReaderIds : \A quota \in 0..MaxSetLen :
        (Open(readers[o]) /\ WriteToStep(o, quota)) =>
            /\ buffers' = buffers
            /\ recyclables' = recyclables
            /\ mem' = mem

\* C28: WriteTo(w) on an open cursor writes exactly the bytes from the
\* cursor's chunk and offset to the end of the set and leaves the cursor at
\* the end; it releases no chunk and leaves the reference count as it is; a
\* sink error is returned as it is, the cursor advanced by the bytes the
\* sink took.
C28_WriteTo == []C28_State /\ [][C28_Step]_vars

\* An open cursor over a set with two references stands inside the second
\* chunk, and a WriteTo writes the last byte and leaves it at the end.
C28_Witness ==
    \E o \in ReaderIds :
        /\ Open(readers[o])
        /\ readers[o].index = 1 /\ readers[o].offset = 1
        /\ recyclables[readers[o].bufs].isRecycle = 2
        /\ LET x == ReaderWriteTo(mem, recyclables, readers[o], MaxSetLen)
           IN  /\ x.err = "nil" /\ x.c.index = 2 /\ x.c.offset = 0
               /\ x.out = SubSeq(Content(readers[o]), MaxSetLen, MaxSetLen)

----------------------------------------------------------------------------
(* Claims about ReadFrom, checked under SpecSrc. *)

\* C29: ReadFrom(r) appends to the buffer exactly the bytes the source
\* delivered, in order, and returns their count; with io.EOF it returns no
\* error, with another error that error, the bytes delivered before it, a
\* last block that is not full included, kept in the buffer.
C29_ReadFrom ==
    \A src \in Sources :
        \A x \in ReadFrom(BufState, src) :
            /\ Bytes(x.st.mem, x.st.b) = Bytes(mem, buf) \o src.stream
            /\ x.app = src.stream
            /\ x.n = Len(src.stream)
            /\ x.err = IF src.err = "EOF" THEN "nil" ELSE src.err

\* ReadFrom on a buffer that held bytes has returned a source error after
\* one full block and a byte more, and the buffer holds them all.
C29_Witness ==
    /\ last.op = "ReadFrom" /\ last.err = "src"
    /\ Len(last.arg) = BlockSize + 1 /\ last.pre # <<>>
    /\ Bytes(mem, buf) = last.pre \o last.arg
    /\ appended = last.pre \o last.arg

----------------------------------------------------------------------------
(* A further claim about Read of recyclable readers, checked under Spec. *)

\* C30: on an open cursor that is at the end of the data, Read(p) with
\* len(p) = 0 returns (0, nil), and Read(p) with len(p) > 0 returns
\* (0, io.EOF).
C30_ZeroLengthAtEnd ==
    \A o \in ReaderIds :
        (Open(readers[o]) /\ Len(Content(readers[o])) > 0
           /\ readers[o].offsetLen = Len(Content(readers[o])))
            => LET zero == ReaderRead(mem, recyclables, readers[o], 0)
                   one  == ReaderRead(mem, recyclables, readers[o], 1)
               IN  /\ zero.out = <<>> /\ zero.err = "nil"
                   /\ one.out = <<>> /\ one.err = "EOF"

----------------------------------------------------------------------------
(* Claims about growth, checked under SpecPool. *)

\* The capacity the growth policy gives the chunk that follows the active
\* chunk of b: StartSize for the first chunk, else twice the capacity of
\* the active chunk, at most MaxSize.
GrowthPolicy(b) ==
    IF b.Buf.cap = 0 THEN config.StartSize
    ELSE IF 2 * b.Buf.cap > config.MaxSize THEN config.MaxSize
         ELSE 2 * b.Buf.cap

\* EnsureSpace(n) on buf acquires a chunk.
Acquires(n) == buf.Buf.cap - buf.Buf.len < n

\* C31: the first chunk a buffer acquires has capacity StartSize, every
\* later chunk EnsureSpace acquires has capacity min(MaxSize, 2 * capacity
\* of the previous active chunk), and no chunk acquired has a capacity
\* greater than MaxSize.
C31_GrowthPolicy ==
    \A n \in 0..MaxSpace :
        Acquires(n) =>
            \A st \in EnsureSpace(BufState, n) :
                /\ st.b.Buf.cap = GrowthPolicy(buf)
                /\ st.b.Buf.cap <= config.MaxSize

\* The chunks an operation that ended in st spilled: those after the ones
\* buf had.
Spilled(st) == SubSeq(st.b.bufs, Len(buf.bufs) + 1, Len(st.b.bufs))

\* st kept the spilled chunks buf had.
KeepsSpilled(st) ==
    /\ Len(st.b.bufs) >= Len(buf.bufs)
    /\ SubSeq(st.b.bufs, 1, Len(buf.bufs)) = buf.bufs

\* Every chunk of the sequence is full and not empty.
AllFull(ss) == \A i \in 1..Len(ss) : ss[i].len = ss[i].cap /\ ss[i].len > 0

\* The outcomes of the append operations for the data of PoolInputs.
Appends ==
    UNION { AppendBytes(BufState, data) \cup AppendString(BufState, data)
            : data \in PoolInputs }
    \cup UNION { AppendByte(BufState, d) : d \in Byte }

\* C32 as stated: every chunk in the spilled list is full and not empty.
C32_Original == AllFull(buf.bufs)

\* C32: every chunk in the spilled list is non-empty; a chunk spilled by
\* AppendByte, AppendBytes or AppendString is full, and EnsureSpace(n)
\* spills at most the active chunk, which then is non-empty and has fewer
\* than n free bytes, so that it is full when n <= 1.
C32_Spilled ==
    /\ \A i \in 1..Len(buf.bufs) : buf.bufs[i].len > 0
    /\ \A st \in Appends : KeepsSpilled(st) /\ AllFull(Spilled(st))
    /\ \A n \in 0..MaxSpace :
          \A st \in EnsureSpace(BufState, n) :
              /\ KeepsSpilled(st)
              /\ Spilled(st) \in {<<>>, <<buf.Buf>>}
              /\ Spilled(st) # <<>> =>
                    /\ buf.Buf.len > 0
                    /\ buf.Buf.cap - buf.Buf.len < n

\* The spilled list holds a full chunk and, after it, a chunk that is not
\* full: one EnsureSpace(n) with n > 1 spilled.
C32_Witness ==
    /\ Len(buf.bufs) >= 2
    /\ buf.bufs[1].len = buf.bufs[1].cap
    /\ buf.bufs[Len(buf.bufs)].len < buf.bufs[Len(buf.bufs)].cap

----------------------------------------------------------------------------
(* Claims about the flags and the content of cursors, checked under Spec. *)

\* Every cursor Recycle was called on still shows as recycled.
C33_State == \A o \in everRecycled : readers[o].isRecycle

\* A cursor that shows as closed, which only Close brings about, and one
\* that shows as recycled, do so after the step.
C33_Step ==
    \A o \in ReaderIds :
        /\ readers[o].isClose => readers'[o].isClose
        /\ readers[o].isRecycle => readers'[o].isRecycle

\* C33: the closed flag and the recycled flag of a cursor are monotonic as
\* seen through a handle to it: once Close (Recycle) was called on it, no
\* later operation, Clone on other cursors and creation of new readers
\* included, makes it show as not closed (not recycled) again.
C33_FlagsMonotonic == []C33_State /\ [][C33_Step]_vars

\* The position of cursor c.
Position(c) == <<c.index, c.offset, c.offsetLen>>

\* C34 as stated: Bytes() on a cursor that has consumed k bytes returns the
\* bytes of the set from offset k to the end.
C34_Original ==
    \A o \in ReaderIds :
        readers[o].bufs # 0 =>
            LET c == readers[o]
                x == ReaderBytes(mem, recyclables, c)
            IN  /\ x.out = SubSeq(Content(c), c.offsetLen + 1, Len(Content(c)))
                /\ Position(x.c) = Position(c)

\* C34: Bytes() on a cursor over a set returns the whole content of the
\* set, from offset 0 to the end, however many bytes the cursor has
\* consumed and whether it is closed or not, as one value and without a
\* fault, and leaves the position of the cursor unchanged.
C34_Bytes ==
    \A o \in ReaderIds :
        readers[o].bufs # 0 =>
            LET c == readers[o]
                x == ReaderBytes(mem, recyclables, c)
            IN  /\ x.err = "nil"
                /\ x.out = Content(c)
                /\ Position(x.c) = Position(c)
                /\ x.c = [c EXCEPT !.size = Len(Content(c))]

\* A cursor has consumed one byte of a set of MaxSetLen bytes in more than
\* one chunk, and Bytes() on it returns the MaxSetLen bytes.
C34_Witness ==
    \E o \in ReaderIds :
        /\ readers[o].bufs # 0
        /\ readers[o].offsetLen = 1
        /\ Len(recyclables[readers[o].bufs].data) > 1
        /\ Len(ReaderBytes(mem, recyclables, readers[o]).out) = MaxSetLen

\* Cursor c as it would be had Len() never cached the size of its set.
Uncached(c) == [c EXCEPT !.size = 0]

\* What the operations on cursor c return: Len, Read, WriteTo, Bytes and
\* BuildBytes.
Results(c) ==
    [len   |-> ReaderLen(recyclables, c).n,
     read  |-> [plen \in 0..MaxSetLen |->
                  [f \in {"out", "err"} |-> ReaderRead(mem, recyclables, c, plen)[f]]],
     write |-> [quota \in 0..MaxSetLen |->
                  [f \in {"out", "err"} |-> ReaderWriteTo(mem, recyclables, c, quota)[f]]],
     bytes |-> [f \in {"out", "err"} |-> ReaderBytes(mem, recyclables, c)[f]],
     build |-> [reuse \in Reuses |->
                  [f \in {"out", "err"} |-> ReaderBuildBytes(mem, recyclables, c, reuse)[f]]]]

\* The results are those of a cursor over nothing: no byte, no fault.
NoData(x) ==
    /\ x.len = 0
    /\ \A plen \in 0..MaxSetLen :
          x.read[plen].out = <<>> /\ x.read[plen].err # "panic"
    /\ \A quota \in 0..MaxSetLen :
          x.write[quota].out = <<>> /\ x.write[quota].err # "panic"
    /\ x.bytes = [out |-> <<>>, err |-> "nil"]
    /\ \A reuse \in Reuses : x.build[reuse] = [out |-> <<>>, err |-> "nil"]

\* C35: after Recycle on a cursor every later operation on it completes
\* without a fault and reads no chunk data: Read and WriteTo return no
\* byte, Bytes and BuildBytes return an empty value, and the results are
\* those the cursor gives when Len() was never called before the Recycle.
C35_AfterRecycle ==
    \A o \in everRecycled :
        /\ NoData(Results(readers[o]))
        /\ Results(readers[o]) = Results(Uncached(readers[o]))

----------------------------------------------------------------------------
(* Claims about the two flushes of a buffer, checked under SpecBuf. *)

\* C36: Buffer.WriteTo and Buffer.DumpTo are interchangeable: on the same
\* buffer and the same sink, one that fails at some write included, they
\* give the sink the same bytes, return the same count and the same error,
\* and leave the buffer and the free lists of the pool in the same state.
C36_SameFlush ==
    \A quota \in Quotas :
        DumpTo(BufState, quota) = BufferWriteTo(BufState, quota)

----------------------------------------------------------------------------
(* Termination.  Init(cfg) and the slow paths of the appends run step by   *)
(* step, one iteration of their loop at a time; threads[1] is the frame of *)
(* the call in progress: its position pc, the loop variable l of           *)
(* initBuffers, the data the slow path has still to copy, and whether the  *)
(* loop has run an odd number of iterations (turn).                        *)

\* The width of Go's int (64 in the build), scaled down.
IntBits == 4

\* The largest int.
MaxInt == 2^(IntBits - 1) - 1

\* An int result, wrapped to the width (two's complement).
Wrap(x) == ((x + MaxInt + 1) % (2 * (MaxInt + 1))) - (MaxInt + 1)

\* Every configuration with 0 <= StartSize <= PooledSize <= MaxSize.
TermConfigs ==
    { c \in [StartSize : 0..MaxInt, PooledSize : 0..MaxInt, MaxSize : 0..MaxInt] :
        c.StartSize <= c.PooledSize /\ c.PooledSize <= c.MaxSize }

\* The frame of a call at position pc.
Frame(pc, l, data, turn) == [pc |-> pc, l |-> l, data |-> data, turn |-> turn]

\* The package after init(): the default configuration and its free lists.
InitTerm ==
    /\ config = DefaultConfig
    /\ buffers = initBuffers(<<>>, DefaultConfig)
    /\ mem = Collect(<<>>, {})
    /\ buf = EmptyBuffer
    /\ rc = NoReader
    /\ recyclables = <<>>
    /\ recyclablePool = EmptyBag
    /\ readers = <<>>
    /\ readerPool = EmptyBag
    /\ threads = <<Frame("start", 0, <<>>, FALSE)>>
    /\ appended = <<>>
    /\ everRecycled = {}
    /\ last = NoOp

\* What the steps of Init(cfg) leave alone.
termFrame == <<mem, buf, rc, recyclables, recyclablePool, readers, readerPool,
               appended, everRecycled, last>>

\* Init(cfg): config = cfg, and initBuffers() is entered with l = PooledSize.
InitCall ==
    \E cfg \in TermConfigs :
        /\ threads[1].pc = "start"
        /\ config' = cfg
        /\ threads' = <<Frame("initBuffers", cfg.PooledSize, <<>>, FALSE)>>
        /\ UNCHANGED <<buffers, termFrame>>

\* One iteration of the loop of initBuffers: buffers[l] = new(sync.Pool);
\* l *= 2.
InitLoop ==
    /\ threads[1].pc = "initBuffers"
    /\ threads[1].l <= config.MaxSize
    /\ buffers' = [k \in DOMAIN buffers \cup {threads[1].l} |->
                      IF k = threads[1].l THEN EmptyBag ELSE buffers[k]]
    /\ threads' = <<Frame("initBuffers", Wrap(threads[1].l * 2), <<>>, ~threads[1].turn)>>
    /\ UNCHANGED <<config, termFrame>>

\* The loop of initBuffers ends and Init returns.
InitReturn ==
    /\ threads[1].pc = "initBuffers"
    /\ threads[1].l > config.MaxSize
    /\ threads' = <<Frame("idle", 0, <<>>, FALSE)>>
    /\ UNCHANGED <<config, buffers, termFrame>>

\* No call is in progress, and the capacities the buffer asks for stay
\* within int: a chunk of more than MaxInt / 2 bytes is never made.
Idle1 == threads[1].pc = "idle" /\ 2 * config.MaxSize <= MaxInt

\* buf.AppendByte(data): a call without a loop.
TermAppendByte ==
    /\ Idle1
    /\ Len(appended) + 1 <= MaxSetLen
    /\ \E st \in AppendByte(BufState, 1) : AppendStep("AppendByte", <<1>>, st)

\* buf.BuildBytes()
TermBuildBytes == Idle1 /\ BufBuildBytes

\* buf.AppendBytes(data) (slow = "appendBytesSlow") and buf.AppendString(data)
\* (slow = "appendStringSlow"): the fast path, or the slow path entered.
TermAppend(op, slow) ==
    \E data \in PoolInputs :
        /\ Idle1
        /\ Len(appended) + Len(data) <= MaxSetLen
        /\ IF Len(data) <= buf.Buf.cap - buf.Buf.len
           THEN AppendStep(op, data, BufAppend(BufState, data))
           ELSE /\ threads' = <<Frame(slow, 0, data, FALSE)>>
                /\ last' = [NoOp EXCEPT !.op = op, !.arg = data, !.pre = appended]
                /\ UNCHANGED <<config, buffers, mem, buf, rc, recyclables,
                               recyclablePool, readers, readerPool, appended,
                               everRecycled>>

TermAppendBytes == TermAppend("AppendBytes", "appendBytesSlow")

TermAppendString == TermAppend("AppendString", "appendStringSlow")

\* The slow paths in progress.
SlowPaths == {"appendBytesSlow", "appendStringSlow"}

\* One iteration of the loop of appendBytesSlow or appendStringSlow:
\* EnsureSpace(1), then as many bytes as fit are copied.
SlowLoop ==
    /\ threads[1].pc \in SlowPaths
    /\ Len(threads[1].data) > 0
    /\ \E e \in EnsureSpace(BufState, 1) :
          LET data == threads[1].data
              sz   == SlowCopyLen(e.b, Len(data))
              st   == BufAppend(e, SubSeq(data, 1, sz))
          IN  /\ buf' = st.b
              /\ buffers' = st.pool
              /\ mem' = Collect(st.mem, Live(st.b, rc, recyclables, st.pool))
              /\ appended' = appended \o SubSeq(data, 1, sz)
              /\ threads' = <<Frame(threads[1].pc, 0, SubSeq(data, sz + 1, Len(data)),
                                     ~threads[1].turn)>>
    /\ UNCHANGED <<config, rc, recyclables, recyclablePool, readers, readerPool,
                   everRecycled, last>>

\* The loop of the slow path ends and the append returns.
SlowReturn ==
    /\ threads[1].pc \in SlowPaths
    /\ Len(threads[1].data) = 0
    /\ threads' = <<Frame("idle", 0, <<>>, FALSE)>>
    /\ UNCHANGED <<config, buffers, termFrame>>

\* The garbage collector empties the free lists: an item put in a
\* sync.Pool may be removed at any time.
PoolCollect ==
    /\ \E k \in DOMAIN buffers : buffers[k] # EmptyBag
    /\ buffers' = [k \in DOMAIN buffers |-> EmptyBag]
    /\ mem' = Collect(mem, Live(buf, rc, recyclables, <<>>))
    /\ UNCHANGED <<config, buf, rc, recyclables, recyclablePool, readers,
                   readerPool, threads, appended, everRecycled, last>>

NextTerm ==
    \/ InitCall
    \/ InitLoop
    \/ InitReturn
    \/ TermAppendByte
    \/ TermAppendBytes
    \/ TermAppendString
    \/ SlowLoop
    \/ SlowReturn
    \/ TermBuildBytes
    \/ PoolCollect

\* A call in progress keeps running.
SpecTerm == InitTerm /\ [][NextTerm]_vars /\ WF_vars(NextTerm)

\* C37: for every configuration with 0 <= StartSize <= PooledSize <=
\* MaxSize, Init(cfg) returns and every AppendBytes and AppendString call
\* returns, after finitely many iterations and hence finitely many chunks
\* (AppendByte has no loop).
C37_Terminates == (threads[1].pc # "idle") ~> (threads[1].pc = "idle")

============================================================================
